---- MODULE Spec2Model ----
(***************************************************************************)
(* The checks of fontbakery's profiles adobefonts.py and name.py as        *)
(* operators over parsed font data, and one "run the check" action per     *)
(* check.  A check is a generator: its outcome is the sequence of results  *)
(* it yields and, when it stops by raising, the exception it raised.       *)
(***************************************************************************)
EXTENDS Integers, Sequences, FiniteSets, Bags, TLC

VARIABLES check, ttFont, ttFonts, glyph_metrics_stats, results, exception, pc,
          imports, profile, log, set_order, module_sets, runs

vars == <<check, ttFont, ttFonts, glyph_metrics_stats, results, exception, pc,
          imports, profile, log, set_order, module_sets, runs>>

(***************************************************************************)
(* Bounds of the model.                                                    *)
(***************************************************************************)
MaxFonts == 5
MaxNameRecords == 3
MaxNamingRecords == 2
MaxGlyphs == 3
MaxAdded == 1
MaxResults == 2
MaxRuns == 2

(***************************************************************************)
(* fontbakery.status                                                       *)
(***************************************************************************)
PASS == "PASS"
FAIL == "FAIL"
WARN == "WARN"
ERROR == "ERROR"
INFO == "INFO"
SKIP == "SKIP"

\* A result whose message is a plain string carries no message code.
NoCode == "(none)"
NoData == <<>>

\* (status, Message(code, text)); data holds the values the text cites.
Message(status, code, data) == [status |-> status, code |-> code, data |-> data]
Plain(status) == Message(status, NoCode, NoData)

NoException == "none"
UnicodeDecodeError == "UnicodeDecodeError"
ZeroDivisionError == "ZeroDivisionError"
KeyError == "KeyError"

\* What a generator has produced: the results yielded so far and the exception
\* that ended it, if any.
Outcome(rs, exc) == [results |-> rs, exception |-> exc]
Yielded(rs) == Outcome(rs, NoException)

(***************************************************************************)
(* fontbakery.constants (NameID, PlatformID, ...), as used by the checks.  *)
(***************************************************************************)
FONT_FAMILY_NAME == 1
FONT_SUBFAMILY_NAME == 2
UNIQUE_FONT_IDENTIFIER == 3
FULL_FONT_NAME == 4
POSTSCRIPT_NAME == 6
DESCRIPTION == 10
TYPOGRAPHIC_FAMILY_NAME == 16
TYPOGRAPHIC_SUBFAMILY_NAME == 17
WWS_FAMILY_NAME == 21

MACINTOSH == 1
WINDOWS == 3
MAC_ROMAN == 0
UNICODE_BMP == 1
MAC_ENGLISH == 0
ENGLISH_USA == 1033

\* The Hangul syllables block, and the modern syllables among the code points
\* of the fonts below.
ALL_HANGUL_SYLLABLES_CODEPOINTS == 44032..55203
MODERN_HANGUL_SYLLABLES_CODEPOINTS == {44032, 44033, 44036}

\* The module-level sets a check computes with.
ModuleSets ==
    [ALL_HANGUL_SYLLABLES_CODEPOINTS |-> ALL_HANGUL_SYLLABLES_CODEPOINTS,
     MODERN_HANGUL_SYLLABLES_CODEPOINTS |-> MODERN_HANGUL_SYLLABLES_CODEPOINTS]

(***************************************************************************)
(* Strings are sequences of characters.  A name record holds the string as *)
(* stored; BadByte stands for a byte sequence the record's encoding cannot *)
(* decode.                                                                 *)
(***************************************************************************)
BadByte == "\\xff"
Whitespace == {" "}

Rep(c, n) == [i \in 1..n |-> c]

\* str.strip()
RECURSIVE lstrip(_)
lstrip(s) == IF s # <<>> /\ Head(s) \in Whitespace THEN lstrip(Tail(s)) ELSE s

RECURSIVE rstrip(_)
rstrip(s) ==
    IF s # <<>> /\ s[Len(s)] \in Whitespace
    THEN rstrip(SubSeq(s, 1, Len(s) - 1))
    ELSE s

strip(s) == rstrip(lstrip(s))

\* str.startswith(prefix)
startswith(s, prefix) ==
    /\ Len(prefix) <= Len(s)
    /\ SubSeq(s, 1, Len(prefix)) = prefix

\* needle in s
contains(s, needle) ==
    \E i \in 0..(Len(s) - Len(needle)) : SubSeq(s, i + 1, i + Len(needle)) = needle

\* str.count(c)
count(s, c) == Cardinality({i \in 1..Len(s) : s[i] = c})

\* sorted(S) for a set of integers
RECURSIVE sorted(_)
sorted(S) ==
    IF S = {} THEN <<>>
    ELSE LET m == CHOOSE x \in S : \A y \in S : x <= y
         IN <<m>> \o sorted(S \ {m})

Range(s) == {s[i] : i \in 1..Len(s)}

\* All sequences over S of length at most n.
SeqsUpTo(S, n) == UNION {[1..k -> S] : k \in 0..n}

(***************************************************************************)
(* The name table: fontTools' NameRecord, toUnicode and getName.           *)
(***************************************************************************)
NameRecord(nameID, platformID, platEncID, langID, string) ==
    [nameID |-> nameID, platformID |-> platformID, platEncID |-> platEncID,
     langID |-> langID, string |-> string]

WinRecord(nameID, string) == NameRecord(nameID, WINDOWS, UNICODE_BMP, ENGLISH_USA, string)
MacRecord(nameID, string) == NameRecord(nameID, MACINTOSH, MAC_ROMAN, MAC_ENGLISH, string)

\* NameRecord.toUnicode() raises UnicodeDecodeError on undecodable bytes.
Decodable(rec) == \A i \in 1..Len(rec.string) : rec.string[i] # BadByte
toUnicode(rec) == rec.string

None == [isNone |-> TRUE]

\* table__n_a_m_e.getName: the first record with the key, or None.
getName(names, nameID, platformID, platEncID, langID) ==
    LET hits == {i \in 1..Len(names) :
                    /\ names[i].nameID = nameID
                    /\ names[i].platformID = platformID
                    /\ names[i].platEncID = platEncID
                    /\ names[i].langID = langID}
    IN IF hits = {} THEN None
       ELSE names[CHOOSE i \in hits : \A j \in hits : i <= j]

(***************************************************************************)
(* A parsed font (fontTools.ttLib.TTFont): the tables the checks read.     *)
(***************************************************************************)
DefaultFont ==
    [tables |-> {"head", "name", "glyf", "hhea", "hmtx", "OS/2", "post", "cmap"},
     unitsPerEm |-> 1000,
     names |-> <<>>,
     cmap |-> <<>>,
     glyphOrder |-> <<>>,
     glyf |-> <<>>,
     charStrings |-> <<>>,
     metrics |-> <<>>,
     advanceWidthMax |-> 0,
     isFixedPitch |-> 0,
     panose |-> [bFamilyType |-> 0, bProportion |-> 0, bSpacing |-> 0],
     fontNames |-> <<>>]

NoStats == [seems_monospaced |-> FALSE, most_common_width |-> 0, width_max |-> 0]

(***************************************************************************)
(* adobefonts.py, module level: the Adobe Fonts profile.                   *)
(***************************************************************************)
\* The module being imported, where no check is running.
ProfileModule == "fontbakery.profiles.adobefonts"

SET_EXPLICIT_CHECKS ==
    {"com.adobe.fonts/check/family/consistent_upm",
     "com.adobe.fonts/check/find_empty_letters",
     "com.adobe.fonts/check/nameid_1_win_english",
     "com.adobe.fonts/check/cff_call_depth",
     "com.adobe.fonts/check/cff2_call_depth",
     "com.adobe.fonts/check/cff_deprecated_operators",
     "com.google.fonts/check/family/equal_unicode_encodings",
     "com.google.fonts/check/all_glyphs_have_codepoints",
     "com.fontwerk/check/weight_class_fvar",
     "com.fontwerk/check/inconsistencies_between_fvar_stat",
     "com.google.fonts/check/varfont/regular_wght_coord",
     "com.google.fonts/check/varfont/regular_wdth_coord",
     "com.google.fonts/check/varfont/regular_slnt_coord",
     "com.google.fonts/check/varfont/regular_ital_coord",
     "com.google.fonts/check/varfont/regular_opsz_coord",
     "com.google.fonts/check/varfont/bold_wght_coord",
     "com.google.fonts/check/varfont/wght_valid_range",
     "com.google.fonts/check/varfont/wdth_valid_range",
     "com.google.fonts/check/varfont/slnt_range",
     "com.adobe.fonts/check/varfont/valid_axis_nameid",
     "com.adobe.fonts/check/varfont/valid_subfamily_nameid",
     "com.adobe.fonts/check/varfont/valid_postscript_nameid",
     "com.adobe.fonts/check/varfont/valid_default_instance_nameids",
     "com.adobe.fonts/check/varfont/same_size_instance_records",
     "com.adobe.fonts/check/varfont/distinct_instance_records",
     "com.google.fonts/check/glyf_unused_data",
     "com.google.fonts/check/points_out_of_bounds",
     "com.google.fonts/check/glyf_non_transformed_duplicate_components",
     "com.google.fonts/check/aat",
     "com.google.fonts/check/fvar_name_entries",
     "com.google.fonts/check/varfont_duplicate_instance_names",
     "com.google.fonts/check/gpos_kerning_info",
     "com.google.fonts/check/family/equal_font_versions",
     "com.google.fonts/check/unitsperem",
     "com.google.fonts/check/font_version",
     "com.google.fonts/check/linegaps",
     "com.google.fonts/check/maxadvancewidth",
     "com.google.fonts/check/whitespace_widths",
     "com.google.fonts/check/kern_table",
     "com.google.fonts/check/layout_valid_feature_tags",
     "com.google.fonts/check/layout_valid_script_tags",
     "com.google.fonts/check/layout_valid_language_tags",
     "com.google.fonts/check/loca/maxp_num_glyphs",
     "com.adobe.fonts/check/name/empty_records",
     "com.google.fonts/check/monospace",
     "com.google.fonts/check/name/match_familyname_fullfont",
     "com.google.fonts/check/family_naming_recommendations",
     "com.adobe.fonts/check/name/postscript_vs_cff",
     "com.adobe.fonts/check/name/postscript_name_consistency",
     "com.adobe.fonts/check/family/max_4_fonts_per_family_name",
     "com.google.fonts/check/cmap/unexpected_subtables",
     "com.google.fonts/check/cmap/format_12",
     "com.google.fonts/check/family/panose_proportion",
     "com.google.fonts/check/family/panose_familytype",
     "com.adobe.fonts/check/fsselection_matches_macstyle",
     "com.adobe.fonts/check/family/bold_italic_unique_for_nameid1",
     "com.google.fonts/check/code_pages",
     "com.google.fonts/check/family/underline_thickness",
     "com.google.fonts/check/post_table_version",
     "com.google.fonts/check/varfont/stat_axis_record_for_each_axis",
     "com.adobe.fonts/check/stat_has_axis_value_tables",
     "com.google.fonts/check/ots",
     "com.google.fonts/check/name/trailing_spaces",
     "com.google.fonts/check/family/win_ascent_and_descent",
     "com.google.fonts/check/os2_metrics_match_hhea",
     "com.google.fonts/check/fontbakery_version",
     "com.google.fonts/check/ttx-roundtrip",
     "com.google.fonts/check/family/single_directory",
     "com.google.fonts/check/mandatory_glyphs",
     "com.google.fonts/check/whitespace_glyphs",
     "com.google.fonts/check/required_tables",
     "com.google.fonts/check/unwanted_tables",
     "com.google.fonts/check/valid_glyphnames",
     "com.google.fonts/check/unique_glyphnames",
     "com.google.fonts/check/family/vertical_metrics",
     "com.google.fonts/check/STAT_strings",
     "com.google.fonts/check/rupee",
     "com.google.fonts/check/transformed_components",
     "com.google.fonts/check/gpos7",
     "com.adobe.fonts/check/freetype_rasterizer",
     "com.adobe.fonts/check/sfnt_version"}

CHECKS_IN_THIS_FILE ==
    <<"com.adobe.fonts/check/family/consistent_upm",
      "com.adobe.fonts/check/find_empty_letters",
      "com.adobe.fonts/check/nameid_1_win_english">>

\* The ids of the functions adobefonts.py decorates with @check.
checks_defined_in_this_file ==
    {"com.adobe.fonts/check/family/consistent_upm",
     "com.adobe.fonts/check/find_empty_letters",
     "com.adobe.fonts/check/nameid_1_win_english"}

\* The check lists of the imported profiles, as the comments of
\* SET_EXPLICIT_CHECKS list them by file, commented-out ids included: the files
\* other than fontwerk.py, googlefonts.py and notofonts.py reach the profile
\* through universal.
ListedUniversal ==
    <<"com.adobe.fonts/check/cff_call_depth",
      "com.adobe.fonts/check/cff2_call_depth",
      "com.adobe.fonts/check/cff_deprecated_operators",
      "com.google.fonts/check/family/equal_unicode_encodings",
      "com.google.fonts/check/all_glyphs_have_codepoints",
      "com.google.fonts/check/dsig",
      "com.google.fonts/check/varfont/regular_wght_coord",
      "com.google.fonts/check/varfont/regular_wdth_coord",
      "com.google.fonts/check/varfont/regular_slnt_coord",
      "com.google.fonts/check/varfont/regular_ital_coord",
      "com.google.fonts/check/varfont/regular_opsz_coord",
      "com.google.fonts/check/varfont/bold_wght_coord",
      "com.google.fonts/check/varfont/wght_valid_range",
      "com.google.fonts/check/varfont/wdth_valid_range",
      "com.google.fonts/check/varfont/slnt_range",
      "com.adobe.fonts/check/varfont/valid_axis_nameid",
      "com.adobe.fonts/check/varfont/valid_subfamily_nameid",
      "com.adobe.fonts/check/varfont/valid_postscript_nameid",
      "com.adobe.fonts/check/varfont/valid_default_instance_nameids",
      "com.adobe.fonts/check/varfont/same_size_instance_records",
      "com.adobe.fonts/check/varfont/distinct_instance_records",
      "com.google.fonts/check/gdef_spacing_marks",
      "com.google.fonts/check/gdef_mark_chars",
      "com.google.fonts/check/gdef_non_mark_chars",
      "com.google.fonts/check/glyf_unused_data",
      "com.google.fonts/check/points_out_of_bounds",
      "com.google.fonts/check/glyf_non_transformed_duplicate_components",
      "com.google.fonts/check/gpos_kerning_info",
      "com.google.fonts/check/family/equal_font_versions",
      "com.google.fonts/check/unitsperem",
      "com.google.fonts/check/font_version",
      "com.google.fonts/check/linegaps",
      "com.google.fonts/check/maxadvancewidth",
      "com.google.fonts/check/whitespace_widths",
      "com.google.fonts/check/kern_table",
      "com.google.fonts/check/layout_valid_feature_tags",
      "com.google.fonts/check/layout_valid_script_tags",
      "com.google.fonts/check/layout_valid_language_tags",
      "com.google.fonts/check/loca/maxp_num_glyphs",
      "com.adobe.fonts/check/name/empty_records",
      "com.google.fonts/check/name/no_copyright_on_description",
      "com.google.fonts/check/monospace",
      "com.google.fonts/check/name/match_familyname_fullfont",
      "com.google.fonts/check/family_naming_recommendations",
      "com.adobe.fonts/check/name/postscript_vs_cff",
      "com.adobe.fonts/check/name/postscript_name_consistency",
      "com.adobe.fonts/check/family/max_4_fonts_per_family_name",
      "com.google.fonts/check/family/panose_proportion",
      "com.google.fonts/check/family/panose_familytype",
      "com.google.fonts/check/xavgcharwidth",
      "com.adobe.fonts/check/fsselection_matches_macstyle",
      "com.adobe.fonts/check/family/bold_italic_unique_for_nameid1",
      "com.google.fonts/check/code_pages",
      "com.google.fonts/check/family/underline_thickness",
      "com.google.fonts/check/post_table_version",
      "com.google.fonts/check/varfont/stat_axis_record_for_each_axis",
      "com.adobe.fonts/check/stat_has_axis_value_tables",
      "com.google.fonts/check/ots",
      "com.google.fonts/check/name/trailing_spaces",
      "com.google.fonts/check/family/win_ascent_and_descent",
      "com.google.fonts/check/os2_metrics_match_hhea",
      "com.google.fonts/check/fontbakery_version",
      "com.google.fonts/check/ttx-roundtrip",
      "com.google.fonts/check/family/single_directory",
      "com.google.fonts/check/mandatory_glyphs",
      "com.google.fonts/check/whitespace_glyphs",
      "com.google.fonts/check/whitespace_glyphnames",
      "com.google.fonts/check/whitespace_ink",
      "com.google.fonts/check/required_tables",
      "com.google.fonts/check/unwanted_tables",
      "com.google.fonts/check/valid_glyphnames",
      "com.google.fonts/check/unique_glyphnames",
      "com.google.fonts/check/family/vertical_metrics",
      "com.google.fonts/check/STAT_strings",
      "com.google.fonts/check/rupee",
      "com.google.fonts/check/unreachable_glyphs",
      "com.google.fonts/check/contour_count",
      "com.google.fonts/check/cjk_chws_feature",
      "com.google.fonts/check/transformed_components",
      "com.google.fonts/check/dotted_circle",
      "com.google.fonts/check/gpos7",
      "com.adobe.fonts/check/freetype_rasterizer",
      "com.adobe.fonts/check/sfnt_version">>

ListedFontwerk ==
    <<"com.fontwerk/check/no_mac_entries",
      "com.fontwerk/check/vendor_id",
      "com.fontwerk/check/weight_class_fvar",
      "com.fontwerk/check/inconsistencies_between_fvar_stat",
      "com.fontwerk/check/style_linking">>

ListedGooglefonts ==
    <<"com.google.fonts/check/aat",
      "com.google.fonts/check/fvar_name_entries",
      "com.google.fonts/check/varfont_has_instances",
      "com.google.fonts/check/varfont_weight_instances",
      "com.google.fonts/check/varfont_duplicate_instance_names">>

ListedNotofonts ==
    <<"com.google.fonts/check/cmap/unexpected_subtables",
      "com.google.fonts/check/unicode_range_bits",
      "com.google.fonts/check/name/noto_manufacturer",
      "com.google.fonts/check/name/noto_designer",
      "com.google.fonts/check/name/noto_trademark",
      "com.google.fonts/check/cmap/format_12",
      "com.google.fonts/check/os2/noto_vendor",
      "com.google.fonts/check/hmtx/encoded_latin_digits",
      "com.google.fonts/check/hmtx/comma_period",
      "com.google.fonts/check/hmtx/whitespace_advances",
      "com.google.fonts/check/cmap/alien_codepoints">>

NoImports ==
    [UNIVERSAL_PROFILE_CHECKS |-> <<>>, FONTWERK_PROFILE_CHECKS |-> <<>>,
     GOOGLEFONTS_PROFILE_CHECKS |-> <<>>, NOTOFONTS_PROFILE_CHECKS |-> <<>>]

\* Ids an imported profile may have lost: an explicit check of name.py, an
\* explicit and overridden check, a commented-out check, an explicit check of
\* notofonts.py.
Droppable ==
    {"com.google.fonts/check/monospace",
     "com.google.fonts/check/whitespace_glyphs",
     "com.fontwerk/check/vendor_id",
     "com.google.fonts/check/cmap/format_12"}

\* Ids an imported profile may list besides: a check the explicit set does not
\* know, a check of this file, a check another imported profile lists too.
Addable ==
    {"com.google.fonts/check/glyph_coverage",
     "com.adobe.fonts/check/find_empty_letters",
     "com.google.fonts/check/aat"}

without(checks, dropped) == SelectSeq(checks, LAMBDA c : c \notin dropped)

ImportedProfiles(dropped, added) ==
    [UNIVERSAL_PROFILE_CHECKS |-> without(ListedUniversal, dropped) \o added,
     FONTWERK_PROFILE_CHECKS |-> without(ListedFontwerk, dropped),
     GOOGLEFONTS_PROFILE_CHECKS |-> without(ListedGooglefonts, dropped),
     NOTOFONTS_PROFILE_CHECKS |-> without(ListedNotofonts, dropped)]

SET_IMPORTED_CHECKS(imp) ==
    Range(imp.UNIVERSAL_PROFILE_CHECKS
          \o imp.FONTWERK_PROFILE_CHECKS
          \o imp.GOOGLEFONTS_PROFILE_CHECKS
          \o imp.NOTOFONTS_PROFILE_CHECKS)

\* A list whose order is an iteration order of a set: the bag of its items.
list_items(checks) ==
    [c \in Range(checks) |-> Cardinality({i \in 1..Len(checks) : checks[i] = c})]

ADOBEFONTS_PROFILE_CHECKS(imp) ==
    list_items(SelectSeq(CHECKS_IN_THIS_FILE, LAMBDA c : c \in SET_EXPLICIT_CHECKS))
    (+) SetToBag({c \in SET_IMPORTED_CHECKS(imp) : c \in SET_EXPLICIT_CHECKS})

OVERRIDDEN_CHECKS ==
    <<"com.google.fonts/check/whitespace_glyphs",
      "com.google.fonts/check/valid_glyphnames",
      "com.google.fonts/check/family/win_ascent_and_descent",
      "com.google.fonts/check/os2_metrics_match_hhea",
      "com.adobe.fonts/check/freetype_rasterizer",
      "com.google.fonts/check/fontbakery_version">>

\* filter_func without '- SET_EXPLICIT_CHECKS'.
filter_func_NotImported(imp, checkid) == checkid \notin SET_IMPORTED_CHECKS(imp)

filter_func(imp, checkid) ==
    checkid \notin SET_IMPORTED_CHECKS(imp) \ SET_EXPLICIT_CHECKS

\* profile.auto_register(globals(), filter_func): of the checks defined in the
\* module and the checks of the imported profiles, those the filter admits.
auto_register(imp) ==
    {checkid \in checks_defined_in_this_file \cup SET_IMPORTED_CHECKS(imp) :
        filter_func(imp, checkid)}

KEEP_ORIGINAL_MESSAGE == "KEEP_ORIGINAL_MESSAGE"

\* The calls without the last one.
check_log_override_calls_NoVersion ==
    <<[check_id |-> "com.google.fonts/check/whitespace_glyphs",
       overrides |-> << <<"missing-whitespace-glyph-0x00A0", WARN,
                          KEEP_ORIGINAL_MESSAGE>> >>],
      [check_id |-> "com.google.fonts/check/valid_glyphnames",
       overrides |-> << <<"found-invalid-names", WARN, KEEP_ORIGINAL_MESSAGE>> >>],
      [check_id |-> "com.google.fonts/check/family/win_ascent_and_descent",
       overrides |-> << <<"ascent", WARN, KEEP_ORIGINAL_MESSAGE>>,
                        <<"descent", WARN, KEEP_ORIGINAL_MESSAGE>> >>],
      [check_id |-> "com.google.fonts/check/os2_metrics_match_hhea",
       overrides |-> << <<"ascender", WARN, KEEP_ORIGINAL_MESSAGE>>,
                        <<"descender", WARN, KEEP_ORIGINAL_MESSAGE>> >>],
      [check_id |-> "com.adobe.fonts/check/freetype_rasterizer",
       overrides |-> << <<"freetype-not-installed", ERROR,
                          KEEP_ORIGINAL_MESSAGE>> >>]>>

\* The six calls of profile.check_log_override, in the order of the file; an
\* override is (message code, new status, new message text).
check_log_override_calls ==
    <<[check_id |-> "com.google.fonts/check/whitespace_glyphs",
       overrides |-> << <<"missing-whitespace-glyph-0x00A0", WARN,
                          KEEP_ORIGINAL_MESSAGE>> >>],
      [check_id |-> "com.google.fonts/check/valid_glyphnames",
       overrides |-> << <<"found-invalid-names", WARN, KEEP_ORIGINAL_MESSAGE>> >>],
      [check_id |-> "com.google.fonts/check/family/win_ascent_and_descent",
       overrides |-> << <<"ascent", WARN, KEEP_ORIGINAL_MESSAGE>>,
                        <<"descent", WARN, KEEP_ORIGINAL_MESSAGE>> >>],
      [check_id |-> "com.google.fonts/check/os2_metrics_match_hhea",
       overrides |-> << <<"ascender", WARN, KEEP_ORIGINAL_MESSAGE>>,
                        <<"descender", WARN, KEEP_ORIGINAL_MESSAGE>> >>],
      [check_id |-> "com.adobe.fonts/check/freetype_rasterizer",
       overrides |-> << <<"freetype-not-installed", ERROR,
                          KEEP_ORIGINAL_MESSAGE>> >>],
      [check_id |-> "com.google.fonts/check/fontbakery_version",
       overrides |-> << <<"connection-error", SKIP, KEEP_ORIGINAL_MESSAGE>> >>]>>

\* profile.profile_tag and the id an overridden check is registered under.
profile_tag == "adobefonts"
override_id(check_id) == check_id \o ":" \o profile_tag

\* add_check_overrides(checkids, profile_tag, overrides)
add_check_overrides(checkids, overridden) ==
    BagOfAll(LAMBDA c : IF c \in Range(overridden) THEN override_id(c) ELSE c,
             checkids)

NoProfile ==
    [checks |-> EmptyBag, registry |-> {}, overrides |-> <<>>,
     missing |-> {}, unexpected |-> {}]

SetupError == "SetupError"

\* profile.test_expected_checks(expected_check_ids, exclusive=True): the
\* expected ids that are not registered and the registered ids not expected.
test_expected_checks(registry, expected_check_ids) ==
    [missing |-> BagToSet(expected_check_ids) \ registry,
     unexpected |-> registry \ BagToSet(expected_check_ids)]

\* The overrides registered for a check by its check_log_override call, if any.
profile_overrides(check_id) ==
    LET calls == {k \in 1..Len(check_log_override_calls) :
                     check_log_override_calls[k].check_id = check_id}
    IN IF calls = {} THEN <<>>
       ELSE check_log_override_calls[CHOOSE k \in calls :
                                         \A j \in calls : k <= j].overrides

\* The wrapper check_log_override puts around a check, per result: the first
\* override whose code is the message's code sets the status, and the text
\* unless it is KEEP_ORIGINAL_MESSAGE.
check_log_override(overrides, result) ==
    LET hits == {k \in 1..Len(overrides) : overrides[k][1] = result.code}
        first == CHOOSE k \in hits : \A j \in hits : k <= j
    IN IF hits = {} THEN result
       ELSE [status |-> overrides[first][2],
             code |-> result.code,
             data |-> IF overrides[first][3] = KEEP_ORIGINAL_MESSAGE
                      THEN result.data
                      ELSE overrides[first][3]]

\* What the profile emits for the results a check yields.
emitted(check_id, rs) ==
    [k \in 1..Len(rs) |-> check_log_override(profile_overrides(check_id), rs[k])]

(***************************************************************************)
(* com.adobe.fonts/check/family/consistent_upm                             *)
(***************************************************************************)
upm_inconsistent_GE1(upm_set) == Cardinality(upm_set) >= 1

upm_inconsistent(upm_set) == Cardinality(upm_set) > 1

com_adobe_fonts_check_family_consistent_upm(fonts) ==
    LET upm_set == {fonts[i].unitsPerEm : i \in 1..Len(fonts)}
    IN IF upm_inconsistent(upm_set)
       THEN Yielded(<<Message(FAIL, "inconsistent-upem", sorted(upm_set))>>)
       ELSE Yielded(<<Plain(PASS)>>)

UnitsPerEmValues == {1000, 1024, 2048}

FontsUpm == {[DefaultFont EXCEPT !.unitsPerEm = u] : u \in UnitsPerEmValues}

\* The order in which a set of strings iterates, where no check iterates one.
NoHashOrder == <<>>

InitRun ==
    /\ results = <<>>
    /\ log = <<>>
    /\ exception = NoException
    /\ pc = "ready"
    /\ imports = NoImports
    /\ profile = NoProfile
    /\ module_sets = ModuleSets
    /\ runs = 0

\* A check runs when the runner calls it, and may be called again.
Runnable == pc = "ready" \/ (pc = "done" /\ runs < MaxRuns)

InitCommon ==
    /\ InitRun
    /\ set_order = NoHashOrder

\* The check has run: what it yielded and raised, and the module-level sets
\* as its statements leave them.  No statement of a check assigns to the fonts,
\* to glyph_metrics_stats or to the profile.
FinishWith(outcome, sets) ==
    /\ results' = outcome.results
    /\ log' = emitted(check, outcome.results)
    /\ exception' = outcome.exception
    /\ pc' = "done"
    /\ runs' = runs + 1
    /\ module_sets' = sets
    /\ UNCHANGED <<check, ttFont, ttFonts, glyph_metrics_stats, imports, profile,
                   set_order>>

Finish(outcome) == FinishWith(outcome, module_sets)

InitUpm ==
    /\ check = "com.adobe.fonts/check/family/consistent_upm"
    /\ ttFonts \in SeqsUpTo(FontsUpm, MaxFonts)
    /\ ttFont = DefaultFont
    /\ glyph_metrics_stats = NoStats
    /\ InitCommon

RunUpm ==
    /\ Runnable
    /\ check = "com.adobe.fonts/check/family/consistent_upm"
    /\ Finish(com_adobe_fonts_check_family_consistent_upm(ttFonts))

SpecUpm == InitUpm /\ [][RunUpm]_vars

Done(id) == pc = "done" /\ check = id

\* C1: consistent_upm yields exactly one result; it is PASS iff the fonts hold at
\* most one distinct head.unitsPerEm, and FAIL 'inconsistent-upem' otherwise.
C1_ConsistentUpm ==
    Done("com.adobe.fonts/check/family/consistent_upm") =>
        LET distinct == {ttFonts[i].unitsPerEm : i \in 1..Len(ttFonts)}
        IN /\ exception = NoException
           /\ Len(results) = 1
           /\ (results[1].status = PASS) <=> (Cardinality(distinct) <= 1)
           /\ results[1].status # PASS =>
                 results[1].status = FAIL /\ results[1].code = "inconsistent-upem"

C1_Witness ==
    /\ Done("com.adobe.fonts/check/family/consistent_upm")
    /\ Len(ttFonts) = 3
    /\ ttFonts[1].unitsPerEm = ttFonts[2].unitsPerEm
    /\ ttFonts[3].unitsPerEm # ttFonts[1].unitsPerEm
    /\ results = <<Message(FAIL, "inconsistent-upem", <<1000, 2048>>)>>

(***************************************************************************)
(* com.adobe.fonts/check/nameid_1_win_english                              *)
(***************************************************************************)
\* shared condition has_name_table: the font has a 'name' table.
has_name_table(font) == "name" \in font.tables

nameid_1_is_empty_NoStrip(unistr) == unistr = <<>>

nameid_1_is_empty(unistr) == strip(unistr) = <<>>

name_table_not_found_Skip == Message(SKIP, "name-table-not-found", NoData)

name_table_not_found == Message(FAIL, "name-table-not-found", NoData)

com_adobe_fonts_check_nameid_1_win_english(font, has_name) ==
    IF ~has_name
    THEN Yielded(<<name_table_not_found>>)
    ELSE LET nameid_1 == getName(font.names, FONT_FAMILY_NAME, WINDOWS,
                                 UNICODE_BMP, ENGLISH_USA)
         IN IF nameid_1 = None
            THEN Yielded(<<Message(FAIL, "nameid-1-not-found", NoData)>>)
            ELSE IF ~Decodable(nameid_1)
            THEN Yielded(<<Message(ERROR, "nameid-1-decoding-error", NoData)>>)
            ELSE IF nameid_1_is_empty(toUnicode(nameid_1))
            THEN Yielded(<<Message(FAIL, "nameid-1-empty", NoData)>>)
            ELSE Yielded(<<Plain(PASS)>>)

RecordsNameid1 ==
    {WinRecord(FONT_FAMILY_NAME, s) : s \in {<<"A">>, <<>>, <<" ">>, <<BadByte>>}}
    \cup {MacRecord(FONT_FAMILY_NAME, <<"A">>), WinRecord(FULL_FONT_NAME, <<"A">>)}

FontsNameid1 ==
    {[DefaultFont EXCEPT !.names = ns] : ns \in SeqsUpTo(RecordsNameid1, MaxNameRecords)}
    \cup {[DefaultFont EXCEPT !.tables = @ \ {"name"}]}

InitNameid1 ==
    /\ check = "com.adobe.fonts/check/nameid_1_win_english"
    /\ ttFont \in FontsNameid1
    /\ ttFonts = <<>>
    /\ glyph_metrics_stats = NoStats
    /\ InitCommon

RunNameid1 ==
    /\ Runnable
    /\ check = "com.adobe.fonts/check/nameid_1_win_english"
    /\ Finish(com_adobe_fonts_check_nameid_1_win_english(ttFont, has_name_table(ttFont)))

SpecNameid1 == InitNameid1 /\ [][RunNameid1]_vars

\* The Windows/Unicode/US-English records with the given nameID, in table order.
WinEnglish(font, nameID) ==
    SelectSeq(font.names,
              LAMBDA r : /\ r.nameID = nameID
                         /\ r.platformID = 3
                         /\ r.platEncID = 1
                         /\ r.langID = 1033)

\* C2: nameid_1_win_english returns exactly one of five outcomes, decided in
\* order: no name table, no Windows/Unicode/US-English nameID 1 record, record
\* undecodable, decoded string empty or whitespace only, otherwise PASS.
C2_Nameid1Outcomes ==
    Done("com.adobe.fonts/check/nameid_1_win_english") =>
        LET recs == WinEnglish(ttFont, 1)
            expected ==
                IF "name" \notin ttFont.tables
                THEN Message(FAIL, "name-table-not-found", NoData)
                ELSE IF recs = <<>>
                THEN Message(FAIL, "nameid-1-not-found", NoData)
                ELSE IF BadByte \in Range(recs[1].string)
                THEN Message(ERROR, "nameid-1-decoding-error", NoData)
                ELSE IF \A i \in 1..Len(recs[1].string) : recs[1].string[i] = " "
                THEN Message(FAIL, "nameid-1-empty", NoData)
                ELSE Plain(PASS)
        IN /\ exception = NoException
           /\ results = <<expected>>

C2_Witness ==
    /\ Done("com.adobe.fonts/check/nameid_1_win_english")
    /\ Len(ttFont.names) = 3
    /\ ttFont.names[1].platformID = MACINTOSH
    /\ ttFont.names[2] = WinRecord(FONT_FAMILY_NAME, <<" ">>)
    /\ ttFont.names[3] = WinRecord(FONT_FAMILY_NAME, <<"A">>)
    /\ results = <<Message(FAIL, "nameid-1-empty", NoData)>>

(***************************************************************************)
(* fontbakery.utils.get_name_entry_strings: the decoded strings of the     *)
(* name records with the given nameID and, where given, platform, encoding *)
(* and language (NotGiven: the argument is left out).                      *)
(***************************************************************************)
NotGiven == -1

get_name_entries(font, nameID, platformID, encodingID, langID) ==
    SelectSeq(font.names,
              LAMBDA e : /\ e.nameID = nameID
                         /\ (platformID = NotGiven \/ e.platformID = platformID)
                         /\ (encodingID = NotGiven \/ e.platEncID = encodingID)
                         /\ (langID = NotGiven \/ e.langID = langID))

get_name_entry_strings(font, nameID, platformID, encodingID, langID) ==
    LET entries == get_name_entries(font, nameID, platformID, encodingID, langID)
    IN [i \in 1..Len(entries) |-> toUnicode(entries[i])]

(***************************************************************************)
(* com.adobe.fonts/check/family/max_4_fonts_per_family_name                *)
(***************************************************************************)
\* list(set(names_list)): a set of strings iterates in the order of the
\* interpreter's string hashes, the same for the life of the process;
\* hash_order lists the strings in that order.
set_items(names_list, hash_order) ==
    SelectSeq(hash_order, LAMBDA n : n \in Range(names_list))

RECURSIVE collect_family_names(_, _)
collect_family_names_NoSet(fonts, hash_order) ==
    IF fonts = <<>> THEN <<>>
    ELSE LET names_list == get_name_entry_strings(Head(fonts), FONT_FAMILY_NAME,
                                                  WINDOWS, UNICODE_BMP, ENGLISH_USA)
         IN names_list \o collect_family_names(Tail(fonts), hash_order)

collect_family_names(fonts, hash_order) ==
    IF fonts = <<>> THEN <<>>
    ELSE LET names_list == get_name_entry_strings(Head(fonts), FONT_FAMILY_NAME,
                                                  WINDOWS, UNICODE_BMP, ENGLISH_USA)
         IN set_items(names_list, hash_order)
                \o collect_family_names(Tail(fonts), hash_order)

\* collections.Counter(items).items(): the distinct items in the order of their
\* first occurrence, each with the number of its occurrences.
RECURSIVE first_occurrences(_)
first_occurrences(items) ==
    IF items = <<>> THEN <<>>
    ELSE LET rest == first_occurrences(SubSeq(items, 1, Len(items) - 1))
             last == items[Len(items)]
         IN IF last \in Range(rest) THEN rest ELSE Append(rest, last)

Counter(items) ==
    LET keys == first_occurrences(items)
    IN [k \in 1..Len(keys) |->
           <<keys[k], Cardinality({i \in 1..Len(items) : items[i] = keys[k]})>>]

MAX_FONTS_PER_FAMILY_NAME == 4

too_many(n) == n > MAX_FONTS_PER_FAMILY_NAME

com_adobe_fonts_check_family_max_4_fonts_per_family_name(fonts, hash_order) ==
    LET family_names == collect_family_names(fonts, hash_order)
        counter == Counter(family_names)
        over == SelectSeq(counter, LAMBDA item : too_many(item[2]))
        fails == [k \in 1..Len(over) |-> Message(FAIL, "too-many", over[k])]
        passed == over = <<>>
    IN Yielded(IF passed THEN fails \o <<Plain(PASS)>> ELSE fails)

FamilyNames == {<<"A">>, <<"B">>}

NameTablesMax4 ==
    {<<WinRecord(FONT_FAMILY_NAME, <<"A">>)>>,
     <<WinRecord(FONT_FAMILY_NAME, <<"B">>)>>,
     <<WinRecord(FONT_FAMILY_NAME, <<"A">>), WinRecord(FONT_FAMILY_NAME, <<"A">>)>>,
     <<WinRecord(FONT_FAMILY_NAME, <<"A">>), WinRecord(FONT_FAMILY_NAME, <<"B">>)>>,
     <<MacRecord(FONT_FAMILY_NAME, <<"A">>)>>}

FontsMax4 == {[DefaultFont EXCEPT !.names = ns] : ns \in NameTablesMax4}

HashOrders == {<< <<"A">>, <<"B">> >>, << <<"B">>, <<"A">> >>}

InitMax4 ==
    /\ check = "com.adobe.fonts/check/family/max_4_fonts_per_family_name"
    /\ ttFonts \in SeqsUpTo(FontsMax4, MaxFonts)
    /\ ttFont = DefaultFont
    /\ glyph_metrics_stats = NoStats
    /\ InitRun
    /\ set_order \in HashOrders

RunMax4 ==
    /\ Runnable
    /\ check = "com.adobe.fonts/check/family/max_4_fonts_per_family_name"
    /\ Finish(com_adobe_fonts_check_family_max_4_fonts_per_family_name(
                  ttFonts, set_order))

SpecMax4 == InitMax4 /\ [][RunMax4]_vars

\* The fonts of the collection that have a Windows/Unicode/US-English nameID 1
\* record holding the name.
FontsUsing(name) ==
    {i \in 1..Len(ttFonts) :
        \E k \in 1..Len(WinEnglish(ttFonts[i], 1)) :
            WinEnglish(ttFonts[i], 1)[k].string = name}

\* C3: max_4_fonts_per_family_name yields exactly one FAIL 'too-many' for each
\* Windows/Unicode/US-English family name used by more than 4 fonts, citing the
\* number of fonts using it (a font repeating the name counts once), and PASS
\* iff no family name is used by more than 4 fonts.
C3_Max4PerFamilyName ==
    Done("com.adobe.fonts/check/family/max_4_fonts_per_family_name") =>
        LET over == {n \in FamilyNames : Cardinality(FontsUsing(n)) > 4}
            fails == {k \in 1..Len(results) : results[k].status = FAIL}
            passes == {k \in 1..Len(results) : results[k].status = PASS}
        IN /\ exception = NoException
           /\ fails \cup passes = 1..Len(results)
           /\ \A n \in over :
                 Cardinality({k \in fails :
                     results[k] = Message(FAIL, "too-many",
                                          <<n, Cardinality(FontsUsing(n))>>)}) = 1
           /\ Cardinality(fails) = Cardinality(over)
           /\ (passes # {}) <=> (over = {})
           /\ Cardinality(passes) <= 1

C3_Witness ==
    /\ Done("com.adobe.fonts/check/family/max_4_fonts_per_family_name")
    /\ Len(ttFonts) = 5
    /\ \A i \in 1..5 : FontsUsing(<<"A">>) = 1..5
    /\ \E i \in 1..5 : Len(WinEnglish(ttFonts[i], 1)) = 2
    /\ results = <<Message(FAIL, "too-many", << <<"A">>, 5 >>)>>

(***************************************************************************)
(* com.google.fonts/check/name/match_familyname_fullfont                   *)
(***************************************************************************)
FamilyNameIDs == <<FONT_FAMILY_NAME, TYPOGRAPHIC_FAMILY_NAME, WWS_FAMILY_NAME>>

names_mismatch_Equal(full_name, family_name) == full_name # family_name

names_mismatch(full_name, family_name) == ~startswith(full_name, family_name)

\* One pass of the innermost loop body: what it yields for the family name
\* record family_name_id of the combination (plat_id, enc_id, lang_id), and
\* whether a comparison was attempted.
compare_names(names, plat_id, enc_id, lang_id, family_name_id) ==
    LET full == getName(names, FULL_FONT_NAME, plat_id, enc_id, lang_id)
        family == getName(names, family_name_id, plat_id, enc_id, lang_id)
        key == <<plat_id, enc_id, lang_id, family_name_id>>
    IN IF full = None \/ family = None
       THEN [compared |-> FALSE, yields |-> <<>>]
       ELSE IF ~Decodable(family)
       THEN [compared |-> TRUE,
             yields |-> <<Message(FAIL,
                                  "cannot-decode-nameid-" \o ToString(family_name_id),
                                  key)>>]
       ELSE IF ~Decodable(full)
       THEN [compared |-> TRUE,
             yields |-> <<Message(FAIL,
                                  "cannot-decode-nameid-" \o ToString(FULL_FONT_NAME),
                                  key)>>]
       ELSE IF names_mismatch(toUnicode(full), toUnicode(family))
       THEN [compared |-> TRUE,
             yields |-> <<Message(FAIL, "mismatch-font-names", key)>>]
       ELSE [compared |-> TRUE, yields |-> <<>>]

com_google_fonts_check_name_match_familyname_fullfont(font) ==
    LET names == font.names
        platform_ids == sorted({names[i].platformID : i \in 1..Len(names)})
        encoding_ids == sorted({names[i].platEncID : i \in 1..Len(names)})
        language_ids == sorted({names[i].langID : i \in 1..Len(names)})
        nF == Len(FamilyNameIDs)
        nL == Len(language_ids)
        nE == Len(encoding_ids)
        passes == Len(platform_ids) * nE * nL * nF
        \* the k-th pass of the four nested loops, k = 0 .. passes - 1
        pass(k) ==
            compare_names(names,
                          platform_ids[(k \div (nF * nL * nE)) + 1],
                          encoding_ids[((k \div (nF * nL)) % nE) + 1],
                          language_ids[((k \div nF) % nL) + 1],
                          FamilyNameIDs[(k % nF) + 1])
        yields[k \in 0..passes] ==
            IF k = 0 THEN <<>> ELSE yields[k - 1] \o pass(k - 1).yields
        names_compared == \E k \in 0..(passes - 1) : pass(k).compared
        passed == yields[passes] = <<>>
    IN Yielded(yields[passes] \o
               (IF ~names_compared
                THEN <<Message(FAIL, "missing-font-names", NoData)>>
                ELSE IF passed THEN <<Plain(PASS)>> ELSE <<>>))

ExampleSans == <<"E", "x", "a", "m", "p", "l", "e", "S", "a", "n", "s">>
Bold == <<"B", "o", "l", "d">>
ExampleSansBold == ExampleSans \o <<" ">> \o Bold
BoldExampleSans == Bold \o <<" ">> \o ExampleSans

RecordsMatch ==
    {WinRecord(FULL_FONT_NAME, s) : s \in {ExampleSansBold, BoldExampleSans, <<BadByte>>}}
    \cup {WinRecord(FONT_FAMILY_NAME, s) : s \in {ExampleSans, <<BadByte>>}}
    \cup {WinRecord(TYPOGRAPHIC_FAMILY_NAME, s) : s \in {ExampleSans, Bold}}
    \cup {WinRecord(WWS_FAMILY_NAME, ExampleSans)}
    \cup {MacRecord(FULL_FONT_NAME, ExampleSansBold)}
    \cup {MacRecord(FONT_FAMILY_NAME, s) : s \in {ExampleSans, Bold}}

FontsMatch ==
    {[DefaultFont EXCEPT !.names = ns] : ns \in SeqsUpTo(RecordsMatch, MaxNameRecords)}

InitMatch ==
    /\ check = "com.google.fonts/check/name/match_familyname_fullfont"
    /\ ttFont \in FontsMatch
    /\ ttFonts = <<>>
    /\ glyph_metrics_stats = NoStats
    /\ InitCommon

RunMatch ==
    /\ Runnable
    /\ check = "com.google.fonts/check/name/match_familyname_fullfont"
    /\ Finish(com_google_fonts_check_name_match_familyname_fullfont(ttFont))

SpecMatch == InitMatch /\ [][RunMatch]_vars

\* The first record of the font with the nameID and the (platformID, encodingID,
\* languageID) of key; FirstRecords is empty when there is none.
FirstRecords(font, nameID, key) ==
    LET hits == SelectSeq(font.names,
                          LAMBDA r : /\ r.nameID = nameID
                                     /\ <<r.platformID, r.platEncID, r.langID>> = key)
    IN IF hits = <<>> THEN {} ELSE {hits[1]}

\* The (platformID, encodingID, languageID, family nameID) for which the font
\* has both a Full Name record and that family name record.
ComparedPairs(font) ==
    {p \in {<<r.platformID, r.platEncID, r.langID, f>> :
               r \in Range(font.names), f \in {1, 16, 21}} :
        /\ FirstRecords(font, 4, <<p[1], p[2], p[3]>>) # {}
        /\ FirstRecords(font, p[4], <<p[1], p[2], p[3]>>) # {}}

PairDecodes(font, p) ==
    \A r \in FirstRecords(font, 4, <<p[1], p[2], p[3]>>)
             \cup FirstRecords(font, p[4], <<p[1], p[2], p[3]>>) :
        BadByte \notin Range(r.string)

PairMatches(font, p) ==
    \A full \in FirstRecords(font, 4, <<p[1], p[2], p[3]>>) :
        \A family \in FirstRecords(font, p[4], <<p[1], p[2], p[3]>>) :
            /\ Len(family.string) <= Len(full.string)
            /\ \A i \in 1..Len(family.string) : full.string[i] = family.string[i]

\* C4: match_familyname_fullfont yields one FAIL 'mismatch-font-names' for every
\* (platform, encoding, language, family nameID) whose Full Name and family name
\* records both exist and decode and whose Full Name does not start with the
\* family name; PASS iff at least one pair was compared and every compared pair
\* decoded and matched; FAIL 'missing-font-names' iff no pair could be compared.
C4_MatchFamilynameFullfont ==
    Done("com.google.fonts/check/name/match_familyname_fullfont") =>
        LET pairs == ComparedPairs(ttFont)
            mismatches == {p \in pairs : PairDecodes(ttFont, p) /\ ~PairMatches(ttFont, p)}
            WithCode(c) == {k \in 1..Len(results) : results[k].code = c}
        IN /\ exception = NoException
           /\ \A p \in mismatches :
                 Cardinality({k \in 1..Len(results) :
                     results[k] = Message(FAIL, "mismatch-font-names", p)}) = 1
           /\ Cardinality(WithCode("mismatch-font-names")) = Cardinality(mismatches)
           /\ (\E k \in 1..Len(results) : results[k].status = PASS)
                 <=> (pairs # {} /\ \A p \in pairs :
                                        PairDecodes(ttFont, p) /\ PairMatches(ttFont, p))
           /\ (\E k \in 1..Len(results) :
                  results[k] = Message(FAIL, "missing-font-names", NoData))
                 <=> (pairs = {})

\* Full Name 'ExampleSans Bold' against Family Name 'ExampleSans' passes.
C4_Witness ==
    /\ Done("com.google.fonts/check/name/match_familyname_fullfont")
    /\ ttFont.names = <<WinRecord(4, ExampleSansBold), WinRecord(1, ExampleSans)>>
    /\ results = <<Plain(PASS)>>

\* Full Name 'Bold ExampleSans' against Family Name 'ExampleSans' fails.
C4_WitnessMismatch ==
    /\ Done("com.google.fonts/check/name/match_familyname_fullfont")
    /\ ttFont.names = <<WinRecord(4, BoldExampleSans), WinRecord(1, ExampleSans)>>
    /\ results = <<Message(FAIL, "mismatch-font-names", <<3, 1, 1033, 1>>)>>

(***************************************************************************)
(* com.adobe.fonts/check/find_empty_letters                                *)
(***************************************************************************)
\* The code points of the model: U+0020 SPACE (Zs), U+0041 'A' (Lu), U+115F
\* HANGUL CHOSEONG FILLER (Lo), and the Hangul syllables U+AC00 and U+AC02 (Lo).
Codepoints == {32, 65, 4447, 44032, 44034}

\* unicodedata.category(chr(unicode_val))
category(unicode_val) ==
    CASE unicode_val = 32 -> "Zs"
      [] unicode_val = 65 -> "Lu"
      [] OTHER -> "Lo"

\* fontbakery.constants: U+AC00..U+D7A3, and of the modern syllables (those of
\* KS X 1001) the ones up to U+AC04; U+AC02 and U+AC03 are not among them.
isComposite(glyph) == glyph.numberOfContours = -1

quick_and_dirty_glyph_is_empty(font, glyph_name) ==
    IF "glyf" \in font.tables
    THEN LET glyph == font.glyf[glyph_name]
         IN ~isComposite(glyph) /\ glyph.numberOfContours = 0
    ELSE LET char_string == font.charStrings[glyph_name]
         IN char_string.bytecode <= 1

blank_ok_set_AllHangul == ALL_HANGUL_SYLLABLES_CODEPOINTS

blank_ok_set == ALL_HANGUL_SYLLABLES_CODEPOINTS \ MODERN_HANGUL_SYLLABLES_CODEPOINTS

\* The difference taken in place (ALL_HANGUL_SYLLABLES_CODEPOINTS -= ...).
sets_after_blank_ok_set_InPlace(sets) ==
    [sets EXCEPT !.ALL_HANGUL_SYLLABLES_CODEPOINTS =
                     @ \ sets.MODERN_HANGUL_SYLLABLES_CODEPOINTS]

\* blank_ok_set = ALL_... - MODERN_...: the operator builds a new set and
\* leaves both module-level sets as they are.
sets_after_blank_ok_set(sets) == sets

letter_categories == {"Ll", "Lm", "Lo", "Lt", "Lu"}
invisible_letters == {4447, 4448, 12644, 65440}

com_adobe_fonts_check_find_empty_letters(font) ==
    LET cmap == font.cmap
        n == Len(cmap)
        glyph_is_empty(k) == quick_and_dirty_glyph_is_empty(font, cmap[k][2])
        blank_hangul(k) == glyph_is_empty(k) /\ cmap[k][1] \in blank_ok_set
        empty_letter(k) ==
            /\ ~blank_hangul(k)
            /\ glyph_is_empty(k)
            /\ category(cmap[k][1]) \in letter_categories
            /\ cmap[k][1] \notin invisible_letters
        yields[k \in 0..n] ==
            IF k = 0 THEN <<>>
            ELSE IF empty_letter(k)
            THEN Append(yields[k - 1], Message(FAIL, "empty-letter", cmap[k]))
            ELSE yields[k - 1]
        num_blank_hangul_glyphs == Cardinality({k \in 1..n : blank_hangul(k)})
        passed == \A k \in 1..n : ~blank_hangul(k) /\ ~empty_letter(k)
    IN Yielded(yields[n] \o
               (IF passed THEN <<Plain(PASS)>>
                ELSE IF num_blank_hangul_glyphs # 0
                THEN <<Message(WARN, "empty-hangul-letter", <<num_blank_hangul_glyphs>>)>>
                ELSE <<>>))

\* The glyphs of a TrueType font: without contours, with contours, composite.
GlyfGlyphs ==
    [g \in {"blank", "inked", "composite"} |->
        [numberOfContours |-> CASE g = "blank" -> 0 [] g = "inked" -> 2 [] OTHER -> -1]]

\* The charstrings of a CFF or CFF2 font: 'endchar' alone, a drawn outline, no
\* bytecode at all.
CharStrings ==
    [g \in {"blank", "inked", "void"} |->
        [bytecode |-> CASE g = "blank" -> 1 [] g = "inked" -> 2 [] OTHER -> 0]]

\* getBestCmap(): the mapped code points in ascending order.
BestCmap(mapping) ==
    LET codes == sorted({c \in DOMAIN mapping : mapping[c] # "unmapped"})
    IN [k \in 1..Len(codes) |-> <<codes[k], mapping[codes[k]]>>]

FontsEmptyLetters ==
    {[DefaultFont EXCEPT !.glyf = GlyfGlyphs, !.cmap = BestCmap(m)] :
        m \in [Codepoints -> DOMAIN GlyfGlyphs \cup {"unmapped"}]}
    \cup {[DefaultFont EXCEPT !.tables = (@ \ {"glyf"}) \cup {cff},
                              !.charStrings = CharStrings,
                              !.cmap = BestCmap(m)] :
            m \in [Codepoints -> DOMAIN CharStrings \cup {"unmapped"}],
            cff \in {"CFF ", "CFF2"}}

InitEmptyLetters ==
    /\ check = "com.adobe.fonts/check/find_empty_letters"
    /\ ttFont \in FontsEmptyLetters
    /\ ttFonts = <<>>
    /\ glyph_metrics_stats = NoStats
    /\ InitCommon

RunEmptyLetters ==
    /\ Runnable
    /\ check = "com.adobe.fonts/check/find_empty_letters"
    /\ FinishWith(com_adobe_fonts_check_find_empty_letters(ttFont),
                  sets_after_blank_ok_set(module_sets))

SpecEmptyLetters == InitEmptyLetters /\ [][RunEmptyLetters]_vars

\* The cmap entries whose glyph the quick-and-dirty test judges empty.
EmptyEntries ==
    {e \in Range(ttFont.cmap) : quick_and_dirty_glyph_is_empty(ttFont, e[2])}

HangulBlankOk(c) == 44032 <= c /\ c <= 55203 /\ c \notin MODERN_HANGUL_SYLLABLES_CODEPOINTS

C6_HangulNeverFails ==
    Done("com.adobe.fonts/check/find_empty_letters") =>
        \A e \in EmptyEntries :
            e[1] \in ALL_HANGUL_SYLLABLES_CODEPOINTS =>
                \A k \in 1..Len(results) :
                    ~(results[k].status = FAIL /\ results[k].data = e)

(***************************************************************************)
(* com.google.fonts/check/monospace                                        *)
(***************************************************************************)
\* fontbakery.constants: PANOSE_Family_Type, PANOSE_Proportion, PANOSE_Spacing,
\* IsFixedWidth.
LATIN_TEXT == 2
LATIN_HAND_WRITTEN == 3
LATIN_DECORATIVE == 4
LATIN_SYMBOL == 5
PROPORTION_MONOSPACED == 9
SPACING_MONOSPACED == 3
NOT_MONOSPACED == 0

PANOSE_is_monospaced(panose) ==
    IF panose.bFamilyType = LATIN_TEXT
    THEN panose.bProportion = PROPORTION_MONOSPACED
    ELSE IF panose.bFamilyType \in {LATIN_HAND_WRITTEN, LATIN_SYMBOL}
    THEN panose.bSpacing = SPACING_MONOSPACED
    ELSE FALSE

\* Which of its four return statements PANOSE_expected executes.
PANOSE_expected(family_type) ==
    IF family_type = LATIN_TEXT
    THEN "Please set PANOSE Proportion to 9 (monospaced)"
    ELSE IF family_type \in {LATIN_HAND_WRITTEN, LATIN_SYMBOL}
    THEN "Please set PANOSE Spacing to 3 (monospaced)"
    ELSE IF family_type = LATIN_SYMBOL
    THEN "PANOSE Family Type is set to 4 (latin symbol)"
    ELSE "Note: Family Type does not seem right"

\* required without 'post'.
RequiredTables_NoPost == <<"glyf", "hhea", "hmtx", "OS/2">>

RequiredTables == <<"glyf", "hhea", "hmtx", "OS/2", "post">>

NotCounted == {".notdef", ".null", "NULL"}

\* The list comprehension unusually_spaced_glyphs: the glyphs it selects and
\* whether looking up ttFont['hmtx'].metrics[g] raises KeyError.
unusually_spaced(font, most_common_width) ==
    LET glyphs == font.glyphOrder
        looked_up == {k \in 1..Len(glyphs) : glyphs[k] \notin NotCounted}
    IN [raises |-> \E k \in looked_up : glyphs[k] \notin DOMAIN font.metrics,
        glyphs |-> SelectSeq(glyphs,
                             LAMBDA g : /\ g \notin NotCounted
                                        /\ g \in DOMAIN font.metrics
                                        /\ font.metrics[g][1] # 0
                                        /\ font.metrics[g][1] # most_common_width)]

bad_panose_non_monospaced(panose) == panose.bProportion = PROPORTION_MONOSPACED

\* failed, without the assignment under 'if outliers_ratio > 0'.
failed_monospaced_NotByOutliers(fails, outliers) == fails # <<>>

\* failed at the end of the monospaced branch: set with every FAIL yielded and
\* with the WARN 'mono-outliers'.
failed_monospaced(fails, outliers) == fails \o outliers # <<>>

com_google_fonts_check_monospace(font, stats) ==
    LET seems_monospaced == stats.seems_monospaced
        most_common_width == stats.most_common_width
        width_max == stats.width_max
        missing == SelectSeq(RequiredTables, LAMBDA key : key \notin font.tables)
        lacks == [k \in 1..Len(missing) |->
                     Message(FAIL, "lacks-" \o missing[k], <<missing[k]>>)]
        bad_width == IF font.advanceWidthMax # width_max
                     THEN <<Message(FAIL, "bad-advanceWidthMax",
                                    <<width_max, font.advanceWidthMax>>)>>
                     ELSE <<>>
        mono_fixed == IF font.isFixedPitch = NOT_MONOSPACED
                      THEN <<Message(FAIL, "mono-bad-post-isFixedPitch",
                                     <<font.isFixedPitch>>)>>
                      ELSE <<>>
        mono_panose == IF ~PANOSE_is_monospaced(font.panose)
                       THEN <<Message(FAIL, "mono-bad-panose",
                                      <<PANOSE_expected(font.panose.bFamilyType)>>)>>
                       ELSE <<>>
        num_glyphs == Len(font.glyphOrder)
        unusual == unusually_spaced(font, most_common_width)
        outliers == IF Len(unusual.glyphs) > 0
                    THEN <<Message(WARN, "mono-outliers", unusual.glyphs)>>
                    ELSE <<>>
        mono == bad_width \o mono_fixed \o mono_panose \o outliers
        fixed == IF font.isFixedPitch # NOT_MONOSPACED
                 THEN <<Message(FAIL, "bad-post-isFixedPitch", <<font.isFixedPitch>>)>>
                 ELSE <<>>
        panose == IF bad_panose_non_monospaced(font.panose)
                  THEN <<Message(FAIL, "bad-panose", NoData)>>
                  ELSE <<>>
        non_mono == bad_width \o fixed \o panose
    IN IF missing # <<>> THEN Yielded(lacks)
       ELSE IF seems_monospaced
       THEN IF unusual.raises
            THEN Outcome(bad_width \o mono_fixed \o mono_panose, KeyError)
            ELSE IF num_glyphs = 0
            THEN Outcome(bad_width \o mono_fixed \o mono_panose, ZeroDivisionError)
            ELSE IF ~failed_monospaced(bad_width \o mono_fixed \o mono_panose, outliers)
            THEN Yielded(mono \o <<Message(PASS, "mono-good", NoData)>>)
            ELSE Yielded(mono)
       ELSE IF non_mono = <<>>
            THEN Yielded(<<Message(PASS, "good", NoData)>>)
            ELSE Yielded(non_mono)

\* The glyph order of the fonts: '.notdef' comes first.
GlyphNames == <<".notdef", "a", "b", "c", "d">>
AdvanceWidths == {0, 500, 600}

PanoseValues ==
    [bFamilyType : {LATIN_TEXT, LATIN_HAND_WRITTEN, LATIN_DECORATIVE, LATIN_SYMBOL},
     bProportion : {PROPORTION_MONOSPACED, 3},
     bSpacing : {SPACING_MONOSPACED, 0}]

\* hmtx.metrics: (advance width, left side bearing) of the glyphs that have one.
HmtxTables(glyphOrder) ==
    UNION {[have -> {<<w, 0>> : w \in AdvanceWidths}] : have \in SUBSET Range(glyphOrder)}

GlyphTables ==
    UNION {{[glyphOrder |-> SubSeq(GlyphNames, 1, n), metrics |-> m] :
               m \in HmtxTables(SubSeq(GlyphNames, 1, n))} :
           n \in {n \in 0..MaxGlyphs : n <= Len(GlyphNames)}}

\* Fonts with all the required tables, and fonts lacking some of them.
FontsMonospace ==
    {[DefaultFont EXCEPT !.glyphOrder = g.glyphOrder,
                         !.metrics = g.metrics,
                         !.advanceWidthMax = awm,
                         !.isFixedPitch = fixed,
                         !.panose = panose] :
        g \in GlyphTables, awm \in {500, 600}, fixed \in {0, 1}, panose \in PanoseValues}
    \cup {[DefaultFont EXCEPT !.tables = @ \ lacking] :
             lacking \in SUBSET {"glyf", "hhea", "hmtx", "OS/2", "post"} \ {{}}}

InitMonospace ==
    /\ check = "com.google.fonts/check/monospace"
    /\ ttFont \in FontsMonospace
    /\ ttFonts = <<>>
    /\ glyph_metrics_stats \in [seems_monospaced : BOOLEAN,
                                most_common_width : {500},
                                width_max : {600}]
    /\ InitCommon

RunMonospace ==
    /\ Runnable
    /\ check = "com.google.fonts/check/monospace"
    /\ Finish(com_google_fonts_check_monospace(ttFont, glyph_metrics_stats))

SpecMonospace == InitMonospace /\ [][RunMonospace]_vars

HasRequiredTables == {"glyf", "hhea", "hmtx", "OS/2", "post"} \subseteq ttFont.tables

HasResult(status, code) ==
    \E k \in 1..Len(results) : results[k].status = status /\ results[k].code = code

\* The PANOSE rule of the check's rationale: bProportion 9 on latin text fonts,
\* bSpacing 3 on latin hand written or latin symbol fonts.
PanoseDeclaresMonospaced ==
    \/ ttFont.panose.bFamilyType = 2 /\ ttFont.panose.bProportion = 9
    \/ ttFont.panose.bFamilyType \in {3, 5} /\ ttFont.panose.bSpacing = 3

\* No glyph other than '.notdef', '.null', 'NULL' has a non-zero advance width
\* different from most_common_width.
NoOutliers ==
    \A g \in Range(ttFont.glyphOrder) \ {".notdef", ".null", "NULL"} :
        g \in DOMAIN ttFont.metrics =>
            \/ ttFont.metrics[g][1] = 0
            \/ ttFont.metrics[g][1] = glyph_metrics_stats.most_common_width

\* C7: on a font with the required tables that seems monospaced, monospace
\* yields PASS 'mono-good' iff advanceWidthMax equals width_max, isFixedPitch is
\* non-zero, the PANOSE values are monospaced and no glyph is an outlier; each
\* violated condition yields its result, and no result of the non-monospaced
\* branch is yielded.
C7_MonospacedBranch ==
    (Done("com.google.fonts/check/monospace") /\ HasRequiredTables
        /\ glyph_metrics_stats.seems_monospaced) =>
        /\ HasResult(PASS, "mono-good")
              <=> /\ ttFont.advanceWidthMax = glyph_metrics_stats.width_max
                  /\ ttFont.isFixedPitch # 0
                  /\ PanoseDeclaresMonospaced
                  /\ NoOutliers
        /\ ttFont.advanceWidthMax # glyph_metrics_stats.width_max
              => HasResult(FAIL, "bad-advanceWidthMax")
        /\ ttFont.isFixedPitch = 0 => HasResult(FAIL, "mono-bad-post-isFixedPitch")
        /\ ~PanoseDeclaresMonospaced => HasResult(FAIL, "mono-bad-panose")
        /\ ~NoOutliers => HasResult(WARN, "mono-outliers")
        /\ \A k \in 1..Len(results) :
              results[k].code \notin {"bad-post-isFixedPitch", "bad-panose", "good"}

\* The same statement for the runs of the check that end without raising.
C7_MonospacedBranchUnlessRaised ==
    exception = NoException => C7_MonospacedBranch

\* C8: on a font with the required tables that does not seem monospaced,
\* monospace yields PASS only if isFixedPitch is 0, the PANOSE values do not
\* declare the font monospaced under the check's own PANOSE rule, and
\* advanceWidthMax equals width_max.
C8_NonMonospacedPass ==
    (Done("com.google.fonts/check/monospace") /\ HasRequiredTables
        /\ ~glyph_metrics_stats.seems_monospaced) =>
        ((\E k \in 1..Len(results) : results[k].status = PASS) =>
            /\ ttFont.isFixedPitch = 0
            /\ ~PanoseDeclaresMonospaced
            /\ ttFont.advanceWidthMax = glyph_metrics_stats.width_max)

(***************************************************************************)
(* com.google.fonts/check/family_naming_recommendations                    *)
(***************************************************************************)
\* The characters the pattern [^A-Za-z0-9-] does not match.
PSNameChars ==
    {"A", "B", "C", "D", "E", "F", "G", "H", "I", "J", "K", "L", "M",
     "N", "O", "P", "Q", "R", "S", "T", "U", "V", "W", "X", "Y", "Z",
     "a", "b", "c", "d", "e", "f", "g", "h", "i", "j", "k", "l", "m",
     "n", "o", "p", "q", "r", "s", "t", "u", "v", "w", "x", "y", "z",
     "0", "1", "2", "3", "4", "5", "6", "7", "8", "9", "-"}

\* bad_psname.search(string)
bad_psname(string) == \E i \in 1..Len(string) : string[i] \notin PSNameChars

exceeds_GT(string, limit) == Len(string) > limit

\* len(string) >= 64, len(string) >= 32
exceeds(string, limit) == Len(string) >= limit

BadEntry(field, value, rec) == [field |-> field, value |-> value, rec |-> rec]

\* The entries one loop over get_name_entry_strings(ttFont, nameID) appends
\* for strings of limit characters or more.
length_entries(font, nameID, limit, field, rec) ==
    LET strings == get_name_entry_strings(font, nameID, NotGiven, NotGiven, NotGiven)
        long == SelectSeq(strings, LAMBDA string : exceeds(string, limit))
    IN [k \in 1..Len(long) |-> BadEntry(field, long[k], rec)]

psname_entries(font) ==
    LET strings == get_name_entry_strings(font, POSTSCRIPT_NAME,
                                          NotGiven, NotGiven, NotGiven)
        entries[k \in 0..Len(strings)] ==
            IF k = 0 THEN <<>>
            ELSE entries[k - 1]
                 \o (IF bad_psname(strings[k])
                     THEN <<BadEntry("PostScript Name", strings[k],
                                     "May contain only a-zA-Z0-9 characters and an hyphen.")>>
                     ELSE <<>>)
                 \o (IF count(strings[k], "-") > 1
                     THEN <<BadEntry("Postscript Name", strings[k],
                                     "May contain not more than a single hyphen")>>
                     ELSE <<>>)
    IN entries[Len(strings)]

com_google_fonts_check_family_naming_recommendations(font) ==
    LET bad_entries ==
            psname_entries(font)
            \o length_entries(font, FULL_FONT_NAME, 64, "Full Font Name",
                              "exceeds max length (63)")
            \o length_entries(font, POSTSCRIPT_NAME, 64, "PostScript Name",
                              "exceeds max length (63)")
            \o length_entries(font, FONT_FAMILY_NAME, 32, "Family Name",
                              "exceeds max length (31)")
            \o length_entries(font, FONT_SUBFAMILY_NAME, 32, "Style Name",
                              "exceeds max length (31)")
            \o length_entries(font, TYPOGRAPHIC_FAMILY_NAME, 32, "OT Family Name",
                              "exceeds max length (31)")
            \o length_entries(font, TYPOGRAPHIC_SUBFAMILY_NAME, 32, "OT Style Name",
                              "exceeds max length (31)")
    IN IF Len(bad_entries) > 0
       THEN Yielded(<<Message(INFO, "bad-entries", bad_entries)>>)
       ELSE Yielded(<<Plain(PASS)>>)

RecordsNaming ==
    {WinRecord(POSTSCRIPT_NAME, s) :
        s \in {Rep("a", 63), Rep("a", 64), <<"A", "-", "b">>,
               <<"A", "-", "b", "-", "c">>, <<"A", "_", "b">>}}
    \cup {WinRecord(FULL_FONT_NAME, s) : s \in {Rep("a", 63), Rep("a", 64)}}
    \cup {WinRecord(id, s) :
             id \in {FONT_FAMILY_NAME, FONT_SUBFAMILY_NAME,
                     TYPOGRAPHIC_FAMILY_NAME, TYPOGRAPHIC_SUBFAMILY_NAME},
             s \in {Rep("a", 31), Rep("a", 32)}}
    \cup {MacRecord(FULL_FONT_NAME, Rep("a", 64)),
          WinRecord(UNIQUE_FONT_IDENTIFIER, Rep("a", 64) \o <<"-", "-", "_">>)}

FontsNaming ==
    {[DefaultFont EXCEPT !.names = ns] : ns \in SeqsUpTo(RecordsNaming, MaxNamingRecords)}

InitNaming ==
    /\ check = "com.google.fonts/check/family_naming_recommendations"
    /\ ttFont \in FontsNaming
    /\ ttFonts = <<>>
    /\ glyph_metrics_stats = NoStats
    /\ InitCommon

RunNaming ==
    /\ Runnable
    /\ check = "com.google.fonts/check/family_naming_recommendations"
    /\ Finish(com_google_fonts_check_family_naming_recommendations(ttFont))

SpecNaming == InitNaming /\ [][RunNaming]_vars

\* The recommendations the k-th name record of the font violates.
NamingViolations(font) ==
    {v \in (1..Len(font.names)) \X {"charset", "hyphens", "63", "31"} :
        LET r == font.names[v[1]]
        IN CASE v[2] = "charset" ->
                   /\ r.nameID = 6
                   /\ \E i \in 1..Len(r.string) : r.string[i] \notin PSNameChars
             [] v[2] = "hyphens" ->
                   /\ r.nameID = 6
                   /\ Cardinality({i \in 1..Len(r.string) : r.string[i] = "-"}) > 1
             [] v[2] = "63" -> r.nameID \in {4, 6} /\ Len(r.string) > 63
             [] v[2] = "31" -> r.nameID \in {1, 2, 16, 17} /\ Len(r.string) > 31}

Recommendation(kind) ==
    CASE kind = "charset" -> "May contain only a-zA-Z0-9 characters and an hyphen."
      [] kind = "hyphens" -> "May contain not more than a single hyphen"
      [] kind = "63" -> "exceeds max length (63)"
      [] kind = "31" -> "exceeds max length (31)"

\* C9: family_naming_recommendations yields exactly one result; it is PASS iff
\* every PostScript name has only A-Z, a-z, 0-9, '-' and at most one hyphen,
\* every Full Font Name and PostScript Name has at most 63 characters and every
\* Family, Style, Typographic Family and Typographic Subfamily name at most 31;
\* otherwise the one 'bad-entries' result lists every violation.
C9_NamingRecommendations ==
    Done("com.google.fonts/check/family_naming_recommendations") =>
        LET violations == NamingViolations(ttFont)
        IN /\ exception = NoException
           /\ Len(results) = 1
           /\ (results[1].status = PASS) <=> (violations = {})
           /\ violations # {} =>
                 /\ results[1].code = "bad-entries"
                 /\ Len(results[1].data) = Cardinality(violations)
                 /\ \A v \in violations :
                       \E k \in 1..Len(results[1].data) :
                           /\ results[1].data[k].value = ttFont.names[v[1]].string
                           /\ results[1].data[k].rec = Recommendation(v[2])

\* A Full Font Name of 63 characters is accepted, one of 64 is reported.
C9_Witness ==
    /\ Done("com.google.fonts/check/family_naming_recommendations")
    /\ ttFont.names = <<WinRecord(4, Rep("a", 63)), WinRecord(4, Rep("a", 64))>>
    /\ results = <<Message(INFO, "bad-entries",
                           <<BadEntry("Full Font Name", Rep("a", 64),
                                      "exceeds max length (63)")>>)>>

\* A Family Name of 31 characters is accepted, one of 32 is reported.
C9_Witness31 ==
    /\ Done("com.google.fonts/check/family_naming_recommendations")
    /\ ttFont.names = <<WinRecord(1, Rep("a", 31)), WinRecord(1, Rep("a", 32))>>
    /\ results = <<Message(INFO, "bad-entries",
                           <<BadEntry("Family Name", Rep("a", 32),
                                      "exceeds max length (31)")>>)>>

(***************************************************************************)
(* com.adobe.fonts/check/name/empty_records                                *)
(***************************************************************************)
\* The index of the first record whose decoding raises, or 0.
first_undecodable(names) ==
    LET bad == {k \in 1..Len(names) : ~Decodable(names[k])}
    IN IF bad = {} THEN 0 ELSE CHOOSE k \in bad : \A j \in bad : k <= j

\* The records a loop over the name table handles before one of them raises.
decoded_prefix(names) ==
    IF first_undecodable(names) = 0 THEN names
    ELSE SubSeq(names, 1, first_undecodable(names) - 1)

raised_by(names) ==
    IF first_undecodable(names) = 0 THEN NoException ELSE UnicodeDecodeError

com_adobe_fonts_check_name_empty_records(font) ==
    LET names == decoded_prefix(font.names)
        empty == SelectSeq(names, LAMBDA r : Len(strip(toUnicode(r))) = 0)
        fails == [k \in 1..Len(empty) |->
                     Message(FAIL, "empty-record",
                             <<empty[k].platformID, empty[k].platEncID,
                               empty[k].langID, empty[k].nameID>>)]
        failed == fails # <<>>
    IN IF "name" \notin font.tables
       THEN Outcome(<<>>, KeyError)
       ELSE IF raised_by(font.names) # NoException
       THEN Outcome(fails, raised_by(font.names))
       ELSE IF ~failed THEN Yielded(<<Plain(PASS)>>) ELSE Yielded(fails)

InitEmptyRecords ==
    /\ check = "com.adobe.fonts/check/name/empty_records"
    /\ ttFont \in FontsNameid1
    /\ ttFonts = <<>>
    /\ glyph_metrics_stats = NoStats
    /\ InitCommon

RunEmptyRecords ==
    /\ Runnable
    /\ check = "com.adobe.fonts/check/name/empty_records"
    /\ Finish(com_adobe_fonts_check_name_empty_records(ttFont))

SpecEmptyRecords == InitEmptyRecords /\ [][RunEmptyRecords]_vars

(***************************************************************************)
(* com.google.fonts/check/name/no_copyright_on_description                 *)
(***************************************************************************)
opyright == <<"o", "p", "y", "r", "i", "g", "h", "t">>

com_google_fonts_check_name_no_copyright_on_description(font) ==
    LET names == font.names
        failed == \E k \in 1..Len(names) :
                      /\ contains(toUnicode(names[k]), opyright)
                      /\ names[k].nameID = DESCRIPTION
    IN IF raised_by(names) # NoException
       THEN Outcome(<<>>, raised_by(names))
       ELSE IF failed
       THEN Yielded(<<Message(FAIL, "copyright-on-description", NoData)>>)
       ELSE Yielded(<<Plain(PASS)>>)

COPYRIGHT_NOTICE == 0

RecordsCopyright ==
    {WinRecord(DESCRIPTION, s) : s \in {<<"C">> \o opyright, <<"A">>, <<BadByte>>}}
    \cup {WinRecord(COPYRIGHT_NOTICE, <<"C">> \o opyright),
          MacRecord(DESCRIPTION, <<"c">> \o opyright \o <<" ", "A">>)}

InitCopyright ==
    /\ check = "com.google.fonts/check/name/no_copyright_on_description"
    /\ ttFont \in {[DefaultFont EXCEPT !.names = ns] :
                      ns \in SeqsUpTo(RecordsCopyright, MaxNameRecords)}
    /\ ttFonts = <<>>
    /\ glyph_metrics_stats = NoStats
    /\ InitCommon

RunCopyright ==
    /\ Runnable
    /\ check = "com.google.fonts/check/name/no_copyright_on_description"
    /\ Finish(com_google_fonts_check_name_no_copyright_on_description(ttFont))

SpecCopyright == InitCopyright /\ [][RunCopyright]_vars

(***************************************************************************)
(* com.adobe.fonts/check/name/postscript_vs_cff and                        *)
(* com.adobe.fonts/check/name/postscript_name_consistency                  *)
(***************************************************************************)
\* shared condition is_cff: the font has a 'CFF ' table.
is_cff(font) == "CFF " \in font.tables

\* conditions = ['is_cff']
postscript_vs_cff_conditions(font) == is_cff(font)

\* The same with is_ttf in place of 'not is_cff'.
postscript_name_consistency_conditions_IsTtf(font) == "glyf" \in font.tables

\* conditions = ['not is_cff'], e.g. TTF or CFF2
postscript_name_consistency_conditions(font) == ~is_cff(font)

\* The nameID 6 records the loop decodes: those up to the first it cannot.
postscript_entries(names) ==
    LET entries == SelectSeq(names, LAMBDA entry : entry.nameID = POSTSCRIPT_NAME)
    IN [decoded |-> decoded_prefix(entries), exception |-> raised_by(entries)]

com_adobe_fonts_check_name_postscript_vs_cff(font) ==
    LET cff_names == font.fontNames
        cff_name == cff_names[1]
        entries == postscript_entries(font.names)
        differing == SelectSeq(entries.decoded,
                               LAMBDA entry : toUnicode(entry) # cff_name)
        fails == [k \in 1..Len(differing) |->
                     Message(FAIL, "ps-cff-name-mismatch",
                             <<toUnicode(differing[k]), cff_name>>)]
        passed == fails = <<>>
    IN IF Len(cff_names) # 1
       THEN Yielded(<<Message(FAIL, "cff-name-error", NoData)>>)
       ELSE IF entries.exception # NoException
       THEN Outcome(fails, entries.exception)
       ELSE IF passed THEN Yielded(<<Plain(PASS)>>) ELSE Yielded(fails)

com_adobe_fonts_check_name_postscript_name_consistency(font) ==
    LET entries == postscript_entries(font.names)
        postscript_names == {toUnicode(entry) : entry \in Range(entries.decoded)}
    IN IF entries.exception # NoException
       THEN Outcome(<<>>, entries.exception)
       ELSE IF Cardinality(postscript_names) > 1
       THEN Yielded(<<Message(FAIL, "inconsistency", postscript_names)>>)
       ELSE Yielded(<<Plain(PASS)>>)

PSName == <<"E", "x", "-", "B">>
OtherPSName == <<"E", "x", "-", "R">>

RecordsPostscript ==
    {WinRecord(POSTSCRIPT_NAME, s) : s \in {PSName, OtherPSName, <<BadByte>>}}
    \cup {MacRecord(POSTSCRIPT_NAME, PSName), WinRecord(FULL_FONT_NAME, OtherPSName)}

\* Fonts of every flavor: TrueType ('glyf'), CFF ('CFF ', whose table holds
\* fontNames) and CFF2.
FontsPostscript ==
    {[DefaultFont EXCEPT !.tables = (@ \ {"glyf"}) \cup {"CFF "},
                         !.fontNames = fn,
                         !.names = ns] :
        fn \in {<<>>, <<PSName>>, <<PSName, OtherPSName>>},
        ns \in SeqsUpTo(RecordsPostscript, MaxNameRecords)}
    \cup {[DefaultFont EXCEPT !.tables = tables, !.names = ns] :
             tables \in {DefaultFont.tables,
                         (DefaultFont.tables \ {"glyf"}) \cup {"CFF2"}},
             ns \in SeqsUpTo(RecordsPostscript, MaxNameRecords)}

InitPostscriptVsCff ==
    /\ check = "com.adobe.fonts/check/name/postscript_vs_cff"
    /\ ttFont \in FontsPostscript
    /\ ttFonts = <<>>
    /\ glyph_metrics_stats = NoStats
    /\ InitCommon

RunPostscriptVsCff ==
    /\ Runnable
    /\ check = "com.adobe.fonts/check/name/postscript_vs_cff"
    /\ postscript_vs_cff_conditions(ttFont)
    /\ Finish(com_adobe_fonts_check_name_postscript_vs_cff(ttFont))

SpecPostscriptVsCff == InitPostscriptVsCff /\ [][RunPostscriptVsCff]_vars

InitPostscriptConsistency ==
    /\ check = "com.adobe.fonts/check/name/postscript_name_consistency"
    /\ ttFont \in FontsPostscript
    /\ ttFonts = <<>>
    /\ glyph_metrics_stats = NoStats
    /\ InitCommon

RunPostscriptConsistency ==
    /\ Runnable
    /\ check = "com.adobe.fonts/check/name/postscript_name_consistency"
    /\ postscript_name_consistency_conditions(ttFont)
    /\ Finish(com_adobe_fonts_check_name_postscript_name_consistency(ttFont))

SpecPostscriptConsistency ==
    InitPostscriptConsistency /\ [][RunPostscriptConsistency]_vars

\* Both PostScript-name checks offered every font; each runs on the fonts that
\* satisfy its conditions.
InitPostscript == InitPostscriptVsCff \/ InitPostscriptConsistency

NextPostscript == RunPostscriptVsCff \/ RunPostscriptConsistency

SpecPostscript == InitPostscript /\ [][NextPostscript]_vars

\* C11: for every font exactly one of postscript_vs_cff and
\* postscript_name_consistency has its conditions satisfied; postscript_vs_cff
\* runs only on fonts with is_cff and postscript_name_consistency only on fonts
\* without it, TrueType and CFF2 alike.
C11_MutuallyExclusiveByFlavor ==
    /\ postscript_vs_cff_conditions(ttFont)
           # postscript_name_consistency_conditions(ttFont)
    /\ postscript_vs_cff_conditions(ttFont) <=> is_cff(ttFont)
    /\ Done("com.adobe.fonts/check/name/postscript_vs_cff") => is_cff(ttFont)
    /\ Done("com.adobe.fonts/check/name/postscript_name_consistency") =>
           ~is_cff(ttFont)

\* postscript_name_consistency has run on a CFF2 font, which has no 'glyf' table.
C11_Witness ==
    /\ Done("com.adobe.fonts/check/name/postscript_name_consistency")
    /\ "CFF2" \in ttFont.tables
    /\ ~postscript_vs_cff_conditions(ttFont)
    /\ results # <<>>

\* postscript_vs_cff has run on a CFF font.
C11_WitnessCff ==
    /\ Done("com.adobe.fonts/check/name/postscript_vs_cff")
    /\ "CFF " \in ttFont.tables
    /\ ~postscript_name_consistency_conditions(ttFont)
    /\ results # <<>>

(***************************************************************************)
(* Every check of adobefonts.py and name.py, each run on its own inputs.   *)
(***************************************************************************)
Init ==
    \/ InitUpm
    \/ InitEmptyLetters
    \/ InitNameid1
    \/ InitEmptyRecords
    \/ InitCopyright
    \/ InitMonospace
    \/ InitMatch
    \/ InitNaming
    \/ InitPostscriptVsCff
    \/ InitPostscriptConsistency
    \/ InitMax4

Next ==
    \/ RunUpm
    \/ RunEmptyLetters
    \/ RunNameid1
    \/ RunEmptyRecords
    \/ RunCopyright
    \/ RunMonospace
    \/ RunMatch
    \/ RunNaming
    \/ RunPostscriptVsCff
    \/ RunPostscriptConsistency
    \/ RunMax4

Spec == Init /\ [][Next]_vars

\* The message codes written in the source of each check; 'lacks-<table>' and
\* 'cannot-decode-nameid-<id>' range over the check's own lists of required
\* tables and of name IDs.
MessageCodes ==
    [c \in {"com.adobe.fonts/check/family/consistent_upm"} |-> {"inconsistent-upem"}]
    @@ [c \in {"com.adobe.fonts/check/find_empty_letters"} |->
           {"empty-letter", "empty-hangul-letter"}]
    @@ [c \in {"com.adobe.fonts/check/nameid_1_win_english"} |->
           {"name-table-not-found", "nameid-1-not-found",
            "nameid-1-decoding-error", "nameid-1-empty"}]
    @@ [c \in {"com.adobe.fonts/check/name/empty_records"} |-> {"empty-record"}]
    @@ [c \in {"com.google.fonts/check/name/no_copyright_on_description"} |->
           {"copyright-on-description"}]
    @@ [c \in {"com.google.fonts/check/monospace"} |->
           {"lacks-glyf", "lacks-hhea", "lacks-hmtx", "lacks-OS/2", "lacks-post",
            "bad-advanceWidthMax", "mono-bad-post-isFixedPitch", "mono-bad-panose",
            "mono-outliers", "mono-good", "bad-post-isFixedPitch", "bad-panose", "good"}]
    @@ [c \in {"com.google.fonts/check/name/match_familyname_fullfont"} |->
           {"cannot-decode-nameid-1", "cannot-decode-nameid-16",
            "cannot-decode-nameid-21", "cannot-decode-nameid-4",
            "mismatch-font-names", "missing-font-names"}]
    @@ [c \in {"com.google.fonts/check/family_naming_recommendations"} |->
           {"bad-entries"}]
    @@ [c \in {"com.adobe.fonts/check/name/postscript_vs_cff"} |->
           {"cff-name-error", "ps-cff-name-mismatch"}]
    @@ [c \in {"com.adobe.fonts/check/name/postscript_name_consistency"} |->
           {"inconsistency"}]
    @@ [c \in {"com.adobe.fonts/check/family/max_4_fonts_per_family_name"} |->
           {"too-many"}]

\* Every result has one of the statuses, and every result that is not a PASS
\* carries one of the message codes of its check.
EmitsOnly(statuses) ==
    \A k \in 1..Len(results) :
        /\ results[k].status \in statuses
        /\ results[k].status # PASS => results[k].code \in MessageCodes[check]

\* C10 as stated: every check emits only FAIL, WARN or PASS, each result that is
\* not a PASS with a fixed message code.
C10_OnlyFailWarnPass == EmitsOnly({FAIL, WARN, PASS})

\* C10 as amended: every check emits only FAIL, WARN, ERROR, INFO or PASS, each
\* result that is not a PASS with a fixed message code.
C10_OnlyFailWarnErrorInfoPass == EmitsOnly({FAIL, WARN, ERROR, INFO, PASS})

\* family_naming_recommendations reports its findings as INFO.
C10_Witness ==
    /\ Done("com.google.fonts/check/family_naming_recommendations")
    /\ Len(results) = 1
    /\ results[1].status = INFO
    /\ results[1].code = "bad-entries"

\* nameid_1_win_english reports an undecodable record as ERROR.
C10_WitnessError ==
    /\ Done("com.adobe.fonts/check/nameid_1_win_english")
    /\ results = <<Message(ERROR, "nameid-1-decoding-error", NoData)>>

(***************************************************************************)
(* Importing adobefonts.py: the module-level statements in file order.     *)
(***************************************************************************)
InitProfile ==
    /\ check = ProfileModule
    /\ ttFont = DefaultFont
    /\ ttFonts = <<>>
    /\ glyph_metrics_stats = NoStats
    /\ results = <<>>
    /\ log = <<>>
    /\ exception = NoException
    /\ set_order = NoHashOrder
    /\ module_sets = ModuleSets
    /\ runs = 0
    /\ \E dropped \in SUBSET Droppable, added \in SeqsUpTo(Addable, MaxAdded) :
          imports = ImportedProfiles(dropped, added)
    /\ profile = NoProfile
    /\ pc = "import"

ProfileFrame ==
    UNCHANGED <<check, ttFont, ttFonts, glyph_metrics_stats, results, log,
                imports, set_order, module_sets, runs>>

\* SET_IMPORTED_CHECKS = set(...); ADOBEFONTS_PROFILE_CHECKS = [...] + [...]
DefineProfileChecks ==
    /\ pc = "import"
    /\ profile' = [profile EXCEPT !.checks = ADOBEFONTS_PROFILE_CHECKS(imports)]
    /\ pc' = "auto_register"
    /\ UNCHANGED exception
    /\ ProfileFrame

\* profile.auto_register(globals(), filter_func=...)
AutoRegister ==
    /\ pc = "auto_register"
    /\ profile' = [profile EXCEPT !.registry = auto_register(imports)]
    /\ pc' = "check_log_override"
    /\ UNCHANGED exception
    /\ ProfileFrame

\* The next profile.check_log_override(check_id, overrides=...): the check is
\* registered again under override_id(check_id), wrapped.  What the call does
\* for a check the profile has not registered is not in these files: it
\* either raises or registers nothing.
CheckLogOverride ==
    /\ pc = "check_log_override"
    /\ LET call == check_log_override_calls[Len(profile.overrides) + 1]
           last == Len(profile.overrides) + 1 = Len(check_log_override_calls)
           next_pc == IF last THEN "add_check_overrides" ELSE "check_log_override"
       IN IF call.check_id \in profile.registry
          THEN /\ profile' = [profile EXCEPT
                      !.registry = (@ \ {call.check_id})
                                       \cup {override_id(call.check_id)},
                      !.overrides = Append(@, call)]
               /\ pc' = next_pc
               /\ UNCHANGED exception
          ELSE \/ /\ profile' = [profile EXCEPT !.overrides = Append(@, call)]
                  /\ pc' = next_pc
                  /\ UNCHANGED exception
               \/ /\ exception' = KeyError
                  /\ pc' = "failed"
                  /\ UNCHANGED profile
    /\ ProfileFrame

\* ADOBEFONTS_PROFILE_CHECKS = add_check_overrides(...)
AddCheckOverrides ==
    /\ pc = "add_check_overrides"
    /\ profile' = [profile EXCEPT
                      !.checks = add_check_overrides(@, OVERRIDDEN_CHECKS)]
    /\ pc' = "test_expected_checks"
    /\ UNCHANGED exception
    /\ ProfileFrame

\* profile.test_expected_checks(ADOBEFONTS_PROFILE_CHECKS, exclusive=True)
TestExpectedChecks ==
    /\ pc = "test_expected_checks"
    /\ LET found == test_expected_checks(profile.registry, profile.checks)
       IN /\ profile' = [profile EXCEPT !.missing = found.missing,
                                        !.unexpected = found.unexpected]
          /\ IF found.missing = {} /\ found.unexpected = {}
             THEN pc' = "done" /\ UNCHANGED exception
             ELSE pc' = "failed" /\ exception' = SetupError
    /\ ProfileFrame

NextProfile ==
    \/ DefineProfileChecks
    \/ AutoRegister
    \/ CheckLogOverride
    \/ AddCheckOverrides
    \/ TestExpectedChecks

SpecProfile == InitProfile /\ [][NextProfile]_vars

\* C12: whatever the imported profiles list, the check ids auto_register admits
\* are the ids of ADOBEFONTS_PROFILE_CHECKS, and test_expected_checks finds no
\* missing and no unexpected check.
C12_RegisteredAreProfileChecks ==
    check = ProfileModule =>
        /\ (pc = "check_log_override" /\ profile.overrides = <<>>) =>
               profile.registry = BagToSet(profile.checks)
        /\ exception # SetupError
        /\ profile.missing = {}
        /\ profile.unexpected = {}

\* The import has completed for imported profiles that list a check outside the
\* explicit set and have lost an explicit one; the former is not registered.
C12_Witness ==
    /\ check = ProfileModule
    /\ pc = "done"
    /\ "com.google.fonts/check/glyph_coverage" \in SET_IMPORTED_CHECKS(imports)
    /\ "com.google.fonts/check/glyph_coverage" \notin profile.registry
    /\ "com.google.fonts/check/monospace" \notin SET_IMPORTED_CHECKS(imports)
    /\ "com.google.fonts/check/name/no_copyright_on_description"
           \notin profile.registry
    /\ override_id("com.google.fonts/check/valid_glyphnames") \in profile.registry
    /\ "com.adobe.fonts/check/nameid_1_win_english" \in profile.registry

C13_ProfileChecksWithinExplicitSet ==
    (/\ check = ProfileModule
     /\ pc \in {"auto_register", "check_log_override", "add_check_overrides"}) =>
        BagToSet(profile.checks) =
            SET_EXPLICIT_CHECKS \cap (Range(CHECKS_IN_THIS_FILE)
                                          \cup SET_IMPORTED_CHECKS(imports))

\* The imported profiles list every explicit id, and the profile is the
\* explicit set.
C13_WitnessAllListed ==
    /\ check = ProfileModule
    /\ pc = "add_check_overrides"
    /\ BagToSet(profile.checks) = SET_EXPLICIT_CHECKS

(***************************************************************************)
(* Checks run through the Adobe Fonts profile.  The overridden checks are  *)
(* imported ones: what they yield is any sequence of results.              *)
(***************************************************************************)
ImportedChecks ==
    Range(OVERRIDDEN_CHECKS) \cup {"com.google.fonts/check/ots"}

\* The message codes the overrides name, a code none of them names, and a
\* message without code.
ImportedCodes ==
    {"missing-whitespace-glyph-0x00A0", "found-invalid-names", "ascent",
     "descent", "ascender", "descender", "freetype-not-installed",
     "connection-error", "other-code", NoCode}

ImportedResults ==
    {Message(status, code, <<"original text">>) :
        status \in {FAIL, PASS}, code \in ImportedCodes}

InitImported ==
    /\ check \in ImportedChecks
    /\ ttFont = DefaultFont
    /\ ttFonts = <<>>
    /\ glyph_metrics_stats = NoStats
    /\ InitCommon

RunImported ==
    /\ pc = "ready"
    /\ check \in ImportedChecks
    /\ \E rs \in SeqsUpTo(ImportedResults, MaxResults) : Finish(Yielded(rs))

InitAdobeProfile == InitImported \/ Init

NextAdobeProfile == RunImported \/ Next

SpecAdobeProfile == InitAdobeProfile /\ [][NextAdobeProfile]_vars

\* The overrides as the profile configures them: check, message code, status.
ConfiguredOverrides ==
    {<<"com.google.fonts/check/whitespace_glyphs",
       "missing-whitespace-glyph-0x00A0", WARN>>,
     <<"com.google.fonts/check/valid_glyphnames", "found-invalid-names", WARN>>,
     <<"com.google.fonts/check/family/win_ascent_and_descent", "ascent", WARN>>,
     <<"com.google.fonts/check/family/win_ascent_and_descent", "descent", WARN>>,
     <<"com.google.fonts/check/os2_metrics_match_hhea", "ascender", WARN>>,
     <<"com.google.fonts/check/os2_metrics_match_hhea", "descender", WARN>>,
     <<"com.adobe.fonts/check/freetype_rasterizer", "freetype-not-installed",
       ERROR>>,
     <<"com.google.fonts/check/fontbakery_version", "connection-error", SKIP>>}

\* C14: overrides are registered for exactly the six checks of
\* OVERRIDDEN_CHECKS, all of them explicit; a result of such a check whose code
\* is an override key is emitted with the configured status and its original
\* message, every other result of every check is emitted as yielded.
C14_OverridesKeyedByCode ==
    /\ {check_log_override_calls[k].check_id :
           k \in 1..Len(check_log_override_calls)} = Range(OVERRIDDEN_CHECKS)
    /\ Cardinality(Range(OVERRIDDEN_CHECKS)) = 6
    /\ Range(OVERRIDDEN_CHECKS) \subseteq SET_EXPLICIT_CHECKS
    /\ {t[1] : t \in ConfiguredOverrides} = Range(OVERRIDDEN_CHECKS)
    /\ (pc = "done" /\ check # ProfileModule) =>
          /\ Len(log) = Len(results)
          /\ \A k \in 1..Len(results) :
                LET keyed == {t \in ConfiguredOverrides :
                                 t[1] = check /\ t[2] = results[k].code}
                IN IF keyed = {}
                   THEN log[k] = results[k]
                   ELSE \A t \in keyed :
                           log[k] = [results[k] EXCEPT !.status = t[3]]

\* fontbakery_version fails with 'connection-error' and with another code: the
\* first is emitted as SKIP, the second as yielded.
C14_Witness ==
    /\ Done("com.google.fonts/check/fontbakery_version")
    /\ results = <<Message(FAIL, "connection-error", <<"original text">>),
                   Message(FAIL, "other-code", <<"original text">>)>>
    /\ log = <<Message(SKIP, "connection-error", <<"original text">>),
               Message(FAIL, "other-code", <<"original text">>)>>

\* A check that is not overridden yields a code that is another check's
\* override key; it is emitted as yielded.
C14_WitnessNotOverridden ==
    /\ Done("com.google.fonts/check/ots")
    /\ results = <<Message(FAIL, "connection-error", <<"original text">>)>>
    /\ log = results

(***************************************************************************)
(* Error handling of the checks.                                           *)
(***************************************************************************)
\* The nameID 6 records of the font.
PostscriptRecords(font) ==
    SelectSeq(font.names, LAMBDA entry : entry.nameID = 6)

\* The check that has run called toUnicode() on a record it cannot decode.
DecodeFailed ==
    \/ /\ Done("com.adobe.fonts/check/nameid_1_win_english")
       /\ "name" \in ttFont.tables
       /\ WinEnglish(ttFont, 1) # <<>>
       /\ BadByte \in Range(WinEnglish(ttFont, 1)[1].string)
    \/ /\ \/ Done("com.adobe.fonts/check/name/empty_records")
          \/ Done("com.google.fonts/check/name/no_copyright_on_description")
       /\ "name" \in ttFont.tables
       /\ \E r \in Range(ttFont.names) : BadByte \in Range(r.string)
    \/ /\ Done("com.google.fonts/check/name/match_familyname_fullfont")
       /\ \E p \in ComparedPairs(ttFont) : ~PairDecodes(ttFont, p)
    \/ /\ \/ /\ Done("com.adobe.fonts/check/name/postscript_vs_cff")
             /\ Len(ttFont.fontNames) = 1
          \/ Done("com.adobe.fonts/check/name/postscript_name_consistency")
       /\ \E r \in Range(PostscriptRecords(ttFont)) : BadByte \in Range(r.string)

\* C15: a check that meets a name record it cannot decode yields an ERROR
\* result, and the decode exception does not leave the check.
C15_DecodeFailuresAreErrors ==
    DecodeFailed =>
        /\ exception = NoException
        /\ \E k \in 1..Len(results) : results[k].status = ERROR

\* nameid_1_win_english alone does so.
C15_Nameid1DecodeFailureIsError ==
    (DecodeFailed /\ check = "com.adobe.fonts/check/nameid_1_win_english") =>
        /\ exception = NoException
        /\ \E k \in 1..Len(results) : results[k].status = ERROR

\* C16: every check that has run on a font satisfying its conditions, whatever
\* tables the font lacks and however degenerate they are, has ended with a
\* sequence of results and raised no exception.
C16_NoUncaughtFaults ==
    (pc = "done" /\ check # ProfileModule) => exception = NoException

\* C18: on a font lacking some of glyf, hhea, hmtx, OS/2, post, monospace
\* yields one FAIL 'lacks-<table>' per missing table, in that order, and nothing
\* else; it raises nothing, as reading a missing table would.
C18_LacksTables ==
    LET missing == SelectSeq(<<"glyf", "hhea", "hmtx", "OS/2", "post">>,
                             LAMBDA key : key \notin ttFont.tables)
    IN (Done("com.google.fonts/check/monospace") /\ missing # <<>>) =>
          /\ exception = NoException
          /\ Len(results) = Len(missing)
          /\ \A k \in 1..Len(missing) :
                /\ results[k].status = FAIL
                /\ results[k].code = "lacks-" \o missing[k]

\* A font lacking hhea and post.
C18_Witness ==
    /\ Done("com.google.fonts/check/monospace")
    /\ ttFont.tables = DefaultFont.tables \ {"hhea", "post"}
    /\ Len(results) = 2
    /\ results[1].status = FAIL /\ results[1].code = "lacks-hhea"
    /\ results[2].status = FAIL /\ results[2].code = "lacks-post"

\* A font lacking post only.
C18_WitnessPost ==
    /\ Done("com.google.fonts/check/monospace")
    /\ ttFont.tables = DefaultFont.tables \ {"post"}
    /\ Len(results) = 1
    /\ results[1].code = "lacks-post"

\* The results empty_records is to yield for the records: one FAIL
\* 'empty-record' with the record's key for each record that is empty once
\* stripped, in table order, and PASS when there is none.
EmptyRecordResults(names) ==
    LET empty == SelectSeq(names, LAMBDA r : \A i \in 1..Len(r.string) :
                                                 r.string[i] = " ")
    IN IF empty = <<>> THEN <<Plain(PASS)>>
       ELSE [k \in 1..Len(empty) |->
                Message(FAIL, "empty-record",
                        <<empty[k].platformID, empty[k].platEncID,
                          empty[k].langID, empty[k].nameID>>)]

\* C19: for every name table, empty_records yields one FAIL 'empty-record' for
\* each record that is empty once stripped, in table order, duplicates of a key
\* included, and PASS iff there is no such record.
C19_EmptyRecords ==
    (Done("com.adobe.fonts/check/name/empty_records") /\ "name" \in ttFont.tables) =>
        /\ exception = NoException
        /\ results = EmptyRecordResults(ttFont.names)

\* The same for the name tables all of whose records decode.
C19_EmptyRecordsOfDecodableTables ==
    (/\ Done("com.adobe.fonts/check/name/empty_records")
     /\ "name" \in ttFont.tables
     /\ \A r \in Range(ttFont.names) : BadByte \notin Range(r.string)) =>
        /\ exception = NoException
        /\ results = EmptyRecordResults(ttFont.names)

\* Two empty records with the same key, after a record that is not empty.
C19_WitnessDuplicates ==
    /\ Done("com.adobe.fonts/check/name/empty_records")
    /\ Len(ttFont.names) = 3
    /\ ttFont.names[2] = ttFont.names[3]
    /\ results = <<Message(FAIL, "empty-record", <<3, 1, 1033, 1>>),
                   Message(FAIL, "empty-record", <<3, 1, 1033, 1>>)>>

\* The results postscript_vs_cff is to yield.
PostscriptVsCffResults(font) ==
    LET differing == SelectSeq(PostscriptRecords(font),
                               LAMBDA r : r.string # font.fontNames[1])
    IN IF Len(font.fontNames) # 1
       THEN <<Message(FAIL, "cff-name-error", NoData)>>
       ELSE IF differing = <<>> THEN <<Plain(PASS)>>
       ELSE [k \in 1..Len(differing) |->
                Message(FAIL, "ps-cff-name-mismatch",
                        <<differing[k].string, font.fontNames[1]>>)]

\* C20: on a CFF font, postscript_vs_cff yields a single FAIL 'cff-name-error'
\* when the CFF table does not hold exactly one font name; otherwise one FAIL
\* 'ps-cff-name-mismatch' per nameID 6 record differing from the FontName, and
\* PASS iff every nameID 6 record equals it.
C20_PostscriptVsCff ==
    Done("com.adobe.fonts/check/name/postscript_vs_cff") =>
        /\ exception = NoException
        /\ results = PostscriptVsCffResults(ttFont)

\* The same for the fonts whose nameID 6 records all decode.
C20_PostscriptVsCffOfDecodableNames ==
    (/\ Done("com.adobe.fonts/check/name/postscript_vs_cff")
     /\ \A r \in Range(PostscriptRecords(ttFont)) : BadByte \notin Range(r.string)) =>
        /\ exception = NoException
        /\ results = PostscriptVsCffResults(ttFont)

C17_WitnessMax4 ==
    /\ runs = 2
    /\ Done("com.adobe.fonts/check/family/max_4_fonts_per_family_name")
    /\ \E k \in 1..Len(results) : results[k].code = "too-many"

(***************************************************************************)
(* The shape of what a check yields.                                       *)
(***************************************************************************)
Passes == {k \in 1..Len(results) : results[k].status = PASS}

NonPasses == {k \in 1..Len(results) : results[k].status \in {FAIL, WARN, ERROR, INFO}}

\* C21: a check that has run without raising has yielded at least one result,
\* and it has yielded a PASS exactly when it has yielded no FAIL, WARN, ERROR
\* or INFO, and never more than one PASS.
C21_PassIffNoNonPass ==
    (pc = "done" /\ exception = NoException) =>
        /\ Len(results) >= 1
        /\ (Passes # {}) <=> (NonPasses = {})
        /\ Cardinality(Passes) <= 1

\* The monospace check has yielded WARN 'mono-outliers' on a font whose
\* metadata is otherwise good, and nothing after it.
C21_Witness ==
    /\ Done("com.google.fonts/check/monospace")
    /\ exception = NoException
    /\ Len(results) = 1
    /\ results[1].status = WARN
    /\ results[1].code = "mono-outliers"

\* find_empty_letters has yielded FAILs and then the Hangul WARN, and no PASS.
C21_WitnessEmptyLetters ==
    /\ Done("com.adobe.fonts/check/find_empty_letters")
    /\ HasResult(FAIL, "empty-letter")
    /\ HasResult(WARN, "empty-hangul-letter")
    /\ Passes = {}

\* A check has yielded its PASS alone.
C21_WitnessPass ==
    /\ Done("com.google.fonts/check/name/match_familyname_fullfont")
    /\ exception = NoException
    /\ Passes # {}
    /\ Len(results) = 1

(***************************************************************************)
(* The advice of PANOSE_expected.                                          *)
(***************************************************************************)
\* bFamilyType is one byte of the OS/2 table.
FamilyTypes == 0..255

\* The messages of the four return statements of PANOSE_expected.
PanoseAdvice ==
    {"Please set PANOSE Proportion to 9 (monospaced)",
     "Please set PANOSE Spacing to 3 (monospaced)",
     "PANOSE Family Type is set to 4 (latin symbol)",
     "Note: Family Type does not seem right"}

\* C22: in the monospace check, each of the four messages of PANOSE_expected
\* is returned for some family type, the 'PANOSE Family Type is set to 4 (latin symbol)' advice
\* among them.
C22_EveryAdviceReturned ==
    check = "com.google.fonts/check/monospace" =>
        \A advice \in PanoseAdvice :
            \E family_type \in FamilyTypes : PANOSE_expected(family_type) = advice

\* What holds instead: the monospace check never gives the latin symbol advice;
\* a latin symbol font gets the advice on PANOSE Spacing and a latin decorative
\* font (family type 4) the note that its family type does not seem right.
C22_LatinSymbolAdviceNeverGiven ==
    /\ \A family_type \in FamilyTypes :
           PANOSE_expected(family_type) \in
               PanoseAdvice \ {"PANOSE Family Type is set to 4 (latin symbol)"}
    /\ \A k \in 1..Len(results) :
           (Done("com.google.fonts/check/monospace") /\ results[k].code = "mono-bad-panose") =>
               results[k].data =
                   <<CASE ttFont.panose.bFamilyType = LATIN_TEXT ->
                              "Please set PANOSE Proportion to 9 (monospaced)"
                       [] ttFont.panose.bFamilyType \in {LATIN_HAND_WRITTEN, LATIN_SYMBOL} ->
                              "Please set PANOSE Spacing to 3 (monospaced)"
                       [] OTHER -> "Note: Family Type does not seem right">>

\* The monospace check has given its advice to a latin symbol font and to a
\* latin decorative font.
C22_WitnessLatinSymbol ==
    /\ Done("com.google.fonts/check/monospace")
    /\ HasResult(FAIL, "mono-bad-panose")
    /\ ttFont.panose.bFamilyType = LATIN_SYMBOL

C22_WitnessLatinDecorative ==
    /\ Done("com.google.fonts/check/monospace")
    /\ HasResult(FAIL, "mono-bad-panose")
    /\ ttFont.panose.bFamilyType = LATIN_DECORATIVE

====
